---- MODULE Spec2Model ----
(***************************************************************************)
(* The dice-notation engine of src/src/core/utils/file-helper.ts           *)
(* (class DiceParser): parse, roll and evaluate.  An expression is a       *)
(* sequence of one-character strings; the random source is the             *)
(* nondeterministic value of every rollSingle call.                        *)
(***************************************************************************)
EXTENDS Integers, Sequences, FiniteSets, TLC

\* ------------------------------------------------------------------ bounds
\* longest expression typed token by token
MaxLen == 5
\* random draws explored in one evaluation
MaxDraws == 4
\* largest die whose draws are explored
MaxFaces == 6

\* ------------------------------------------------------- characters, text
DigitChars == {"0", "1", "2", "3", "4", "5", "6", "7", "8", "9"}

DigitVal(c) ==
  CASE c = "0" -> 0 [] c = "1" -> 1 [] c = "2" -> 2 [] c = "3" -> 3
    [] c = "4" -> 4 [] c = "5" -> 5 [] c = "6" -> 6 [] c = "7" -> 7
    [] c = "8" -> 8 [] c = "9" -> 9

WhiteSpace == {" ", "\t"}

\* String.prototype.toLowerCase, one character
LowerChar(c) ==
  CASE c = "D" -> "d" [] c = "K" -> "k" [] c = "H" -> "h" [] c = "L" -> "l"
    [] c = "R" -> "r" [] c = "X" -> "x" [] OTHER -> c

toLowerCase(s) == [i \in 1..Len(s) |-> LowerChar(s[i])]

\* String.prototype.slice(n): the text after the first n characters
slice(s, n) == SubSeq(s, n + 1, Len(s))

RECURSIVE trimStart(_)
trimStart(s) ==
  IF s # <<>> /\ Head(s) \in WhiteSpace THEN trimStart(Tail(s)) ELSE s

RECURSIVE trimEnd(_)
trimEnd(s) ==
  IF s # <<>> /\ s[Len(s)] \in WhiteSpace
  THEN trimEnd(SubSeq(s, 1, Len(s) - 1)) ELSE s

\* String.prototype.trim
trim(s) == trimEnd(trimStart(s))

\* -------------------------------------------------------------- JS numbers
\* a JavaScript number: an integer, NaN, or an infinity (v is its sign)
Num(n) == [k |-> "int", v |-> n]
NaN == [k |-> "nan", v |-> 0]
Infinity(sign) == [k |-> "inf", v |-> sign]

Sign(n) == IF n > 0 THEN 1 ELSE IF n < 0 THEN 0 - 1 ELSE 0

\* the length of the run of digits of s that starts at position p: \d*
RECURSIVE DigitsLen(_, _)
DigitsLen(s, p) ==
  IF p <= Len(s) /\ s[p] \in DigitChars THEN 1 + DigitsLen(s, p + 1) ELSE 0

RECURSIVE DecimalValue(_)
DecimalValue(s) ==
  IF s = <<>> THEN 0
  ELSE 10 * DecimalValue(SubSeq(s, 1, Len(s) - 1)) + DigitVal(s[Len(s)])

\* parseInt(text, 10) on text without sign or white space: the value of the
\* leading digits, NaN when there is none
parseInt(s) ==
  IF DigitsLen(s, 1) = 0 THEN NaN
  ELSE Num(DecimalValue(SubSeq(s, 1, DigitsLen(s, 1))))

JsAdd(a, b) ==
  IF a.k = "nan" \/ b.k = "nan" THEN NaN
  ELSE IF a.k = "inf" THEN (IF b.k = "inf" /\ b.v # a.v THEN NaN ELSE a)
  ELSE IF b.k = "inf" THEN b
  ELSE Num(a.v + b.v)

JsNeg(a) == IF a.k = "nan" THEN NaN ELSE [k |-> a.k, v |-> 0 - a.v]

JsSub(a, b) == JsAdd(a, JsNeg(b))

JsMul(a, b) ==
  IF a.k = "nan" \/ b.k = "nan" THEN NaN
  ELSE IF a.k = "inf" \/ b.k = "inf"
       THEN (IF Sign(a.v) * Sign(b.v) = 0 THEN NaN
             ELSE Infinity(Sign(a.v) * Sign(b.v)))
  ELSE Num(a.v * b.v)

\* JsFloorDiv rounding toward zero, as Math.trunc(a / b) does
JsTruncDiv(a, b) ==
  IF a.k = "nan" \/ b.k = "nan" THEN NaN
  ELSE IF a.k = "inf" THEN (IF b.k = "inf" THEN NaN ELSE a)
  ELSE IF b.k = "inf" THEN Num(0)
  ELSE IF b.v = 0 THEN (IF a.v = 0 THEN NaN ELSE Infinity(Sign(a.v)))
  ELSE Num(IF a.v < 0 THEN 0 - ((0 - a.v) \div b.v) ELSE a.v \div b.v)

\* Math.floor(a / b); the divisor of an expression is never negative
JsFloorDiv(a, b) ==
  IF a.k = "nan" \/ b.k = "nan" THEN NaN
  ELSE IF a.k = "inf" THEN (IF b.k = "inf" THEN NaN ELSE a)
  ELSE IF b.k = "inf" THEN Num(IF a.v < 0 THEN 0 - 1 ELSE 0)
  ELSE IF b.v = 0 THEN (IF a.v = 0 THEN NaN ELSE Infinity(Sign(a.v)))
  ELSE Num(a.v \div b.v)

\* `${x}` of a number
JsString(a) ==
  IF a.k = "nan" THEN "NaN"
  ELSE IF a.k = "inf" THEN (IF a.v > 0 THEN "Infinity" ELSE "-Infinity")
  ELSE ToString(a.v)

\* ------------------------------------------------------------------ parser
\* the text of s from position p, n characters long ("" when n = 0)
Text(s, p, n) == SubSeq(s, p, p + n - 1)

CharAt(s, p) == IF p <= Len(s) THEN s[p] ELSE ""

\* the two characters of s at position p, as a string
Pair(s, p) == CharAt(s, p) \o CharAt(s, p + 1)

\* (kh|kl|dh|dl) under the i flag at position p: the text matched, "" if none
KeepDropAt(s, p) ==
  IF LowerChar(CharAt(s, p)) \in {"k", "d"} /\ LowerChar(CharAt(s, p + 1)) \in {"h", "l"}
  THEN Pair(s, p)
  ELSE ""

\* RerollAt with the alternative rr left out of the pattern
RerollAtSingle(s, p) ==
  IF LowerChar(CharAt(s, p)) = "r" THEN CharAt(s, p) ELSE ""

\* (rr|r) under the i flag at position p: the text matched, "" if none
RerollAt(s, p) ==
  IF LowerChar(CharAt(s, p)) # "r" THEN ""
  ELSE IF LowerChar(CharAt(s, p + 1)) = "r" THEN Pair(s, p)
  ELSE CharAt(s, p)

\* A match in progress of
\*   (\d*)d(\d+)(kh|kl|dh|dl)?(\d+)?(!)?(rr|r)?(\d+)?
\* on s from position start: p is the position reached, the other fields the
\* groups.  A group that took no part is "" or <<>> (falsy, as undefined is).
\* Every group after the faces is optional and greedy, so the first match
\* the engine finds is the greedy one, left to right.
Cursor(s, start) ==
  [s |-> s, start |-> start, p |-> start, ok |-> TRUE, count |-> <<>>,
   faces |-> <<>>, keep |-> "", modifier |-> <<>>, explode |-> FALSE,
   reroll |-> "", threshold |-> <<>>]

\* group g takes the n characters at the cursor
Take(m, g, n) == [m EXCEPT ![g] = Text(m.s, m.p, n), !.p = m.p + n]

\* (\d*) and (\d+)? into group g
Digits(m, g) == Take(m, g, DigitsLen(m.s, m.p))

\* the letter d
LetterD(m) ==
  IF LowerChar(CharAt(m.s, m.p)) = "d" THEN [m EXCEPT !.p = m.p + 1]
  ELSE [m EXCEPT !.ok = FALSE]

\* (\d+): at least one digit
Required(m, g) == [m EXCEPT !.ok = m.ok /\ m[g] # <<>>]

\* an optional keyword w into group g
Keyword(m, g, w) == [m EXCEPT ![g] = w, !.p = m.p + Len(w)]

\* (!)?
Bang(m) ==
  IF CharAt(m.s, m.p) = "!" THEN [m EXCEPT !.explode = TRUE, !.p = m.p + 1]
  ELSE m

KeepDrop(m) == Keyword(m, "keep", KeepDropAt(m.s, m.p))

Reroll(m) == Keyword(m, "reroll", RerollAt(m.s, m.p))

\* a match that failed leaves every group undefined
Outcome(m) == IF m.ok THEN m ELSE [Cursor(m.s, m.start) EXCEPT !.ok = FALSE]

\* the regular expression matched at position start of s; the length of
\* the match is Matched(m)
DiceMatch(s, start) ==
  Outcome(Digits(Reroll(Bang(Digits(KeepDrop(
    Required(Digits(LetterD(Digits(Cursor(s, start), "count")), "faces"), "faces")),
    "modifier"))), "threshold"))

Matched(m) == m.p - m.start

\* the error kinds of parse, one per message thrown
EmptyExpression == "EmptyExpression"
InvalidExpression == "InvalidExpression"
InvalidDiceCount == "InvalidDiceCount"
InvalidFaceCount == "InvalidFaceCount"
InvalidModifierCount == "InvalidModifierCount"
ModifierExceedsCount == "ModifierExceedsCount"
InvalidRerollThreshold == "InvalidRerollThreshold"
NoError == "none"

\* group ? parseInt(group, 10) : 1
OrOne(group) == IF group = <<>> THEN 1 ELSE DecimalValue(group)

\* the checks on a matched dice term, in the order of the code
\* TermError without the test  rerollThreshold >= faces
TermErrorAnyThreshold(count, faces, modifierCount, rerollType, rerollThreshold) ==
  IF count < 1 THEN InvalidDiceCount
  ELSE IF faces < 1 THEN InvalidFaceCount
  ELSE IF modifierCount < 1 THEN InvalidModifierCount
  ELSE IF modifierCount > count THEN ModifierExceedsCount
  ELSE IF rerollType # "" /\ rerollThreshold < 1 THEN InvalidRerollThreshold
  ELSE NoError

TermError(count, faces, modifierCount, rerollType, rerollThreshold) ==
  IF count < 1 THEN InvalidDiceCount
  ELSE IF faces < 1 THEN InvalidFaceCount
  ELSE IF modifierCount < 1 THEN InvalidModifierCount
  ELSE IF modifierCount > count THEN ModifierExceedsCount
  ELSE IF rerollType # "" /\ (rerollThreshold < 1 \/ rerollThreshold >= faces)
       THEN InvalidRerollThreshold
  ELSE NoError

\* a DiceTerm; an undefined field is "none" (a keyword) or <<>> (a number)
DiceTerm(count, faces, keep, modifierCount, explode, rerollType, rerollThreshold) ==
  [kind |-> "dice", count |-> count, faces |-> faces,
   keepModifier |-> IF keep \in {"kh", "kl"} THEN keep ELSE "none",
   dropModifier |-> IF keep \in {"dh", "dl"} THEN keep ELSE "none",
   modifierCount |-> modifierCount, explode |-> explode,
   reroll |-> IF rerollType = "" THEN "none" ELSE rerollType,
   rerollThreshold |-> IF rerollType = "" THEN <<>> ELSE <<rerollThreshold>>]

\* a term that is a number
Literal(x) == [kind |-> "num", value |-> x]

\* the checks, then the term: [err, term] (term is read only when err is
\* NoError)
Checked(count, faces, keep, modifierCount, explode, rerollType, rerollThreshold) ==
  [err |-> TermError(count, faces, modifierCount, rerollType, rerollThreshold),
   term |-> DiceTerm(count, faces, keep, modifierCount, explode, rerollType,
                     rerollThreshold)]

\* the body of `if (diceMatch)` and of `if (operatorMatch[3])`
BuildTerm(m) ==
  Checked(OrOne(m.count), DecimalValue(m.faces), m.keep, OrOne(m.modifier),
          m.explode, m.reroll, OrOne(m.threshold))

\* what parseFirstTerm returns: [found, err, term, remaining]
FirstTerm(b, remaining) ==
  [found |-> TRUE, err |-> b.err, term |-> b.term, remaining |-> remaining]

NoFirstTerm ==
  [found |-> FALSE, err |-> NoError, term |-> Literal(NaN), remaining |-> <<>>]

\* FirstOf handing on the rest of the text as sliced, white space included
FirstOfAsSliced(expression, m, n) ==
  IF m.ok
  THEN FirstTerm(BuildTerm(m), slice(expression, Matched(m)))
  ELSE IF n >= 1
  THEN FirstTerm([err |-> NoError,
                  term |-> Literal(parseInt(Text(expression, 1, n)))],
                 slice(expression, n))
  ELSE NoFirstTerm

\* parseFirstTerm with its two matches done: m the dice match, n the length
\* of the match of /^(\d+)/
FirstOf(expression, m, n) ==
  IF m.ok
  THEN FirstTerm(BuildTerm(m), trim(slice(expression, Matched(m))))
  ELSE IF n >= 1
  THEN FirstTerm([err |-> NoError,
                  term |-> Literal(parseInt(Text(expression, 1, n)))],
                 trim(slice(expression, n)))
  ELSE NoFirstTerm

parseFirstTerm(expression) ==
  FirstOf(expression, DiceMatch(expression, 1), DigitsLen(expression, 1))

Operators == {"+", "-", "*", "/"}

\* /^([+\-*/])((\d*)d(\d+)...|\d+)/i with its alternatives done: m the dice
\* alternative at position 2, n the length of \d+ there.  [ok, operator, m,
\* text (group 2), len]
OperatorOf(expression, m, n) ==
  IF CharAt(expression, 1) \in Operators /\ m.ok
  THEN [ok |-> TRUE, operator |-> expression[1], m |-> m,
        text |-> Text(expression, 2, Matched(m)), len |-> 1 + Matched(m)]
  ELSE IF CharAt(expression, 1) \in Operators /\ n >= 1
  THEN [ok |-> TRUE, operator |-> expression[1], m |-> m,
        text |-> Text(expression, 2, n), len |-> 1 + n]
  ELSE [ok |-> FALSE, operator |-> "", m |-> m, text |-> <<>>, len |-> 0]

OperatorMatch(expression) ==
  OperatorOf(expression, DiceMatch(expression, 2), DigitsLen(expression, 2))

\* `if (operatorMatch[3])`: the operand is taken for a dice term when the
\* count group is a non-empty string
IsDiceOperand(om) == om.m.count # <<>>

\* terms.push({ operator, value })
Pushing(operator, b) ==
  [err |-> b.err, term |-> [operator |-> operator, value |-> b.term]]

\* one turn of the while loop on a matched operator and operand: [err, term]
ArithmeticTerm(om) ==
  IF IsDiceOperand(om)
  THEN Pushing(om.operator, BuildTerm(om.m))
  ELSE Pushing(om.operator,
               [err |-> NoError, term |-> Literal(parseInt(om.text))])

\* the loop of parseArithmeticTerms from its second line on, om the match
\* on expression and t the turn's outcome
RECURSIVE parseArithmeticTerms(_, _)
AfterTurn(expression, terms, om, t) ==
  IF t.err # NoError THEN [err |-> t.err, terms |-> <<>>]
  ELSE parseArithmeticTerms(trim(slice(expression, om.len)),
                            Append(terms, t.term))

AfterMatch(expression, terms, om) ==
  IF ~om.ok THEN [err |-> InvalidExpression, terms |-> <<>>]
  ELSE AfterTurn(expression, terms, om, ArithmeticTerm(om))

\* parseArithmeticTerms: [err, terms], terms already parsed carried along
parseArithmeticTerms(expression, terms) ==
  IF expression = <<>> THEN [err |-> NoError, terms |-> terms]
  ELSE AfterMatch(expression, terms, OperatorMatch(expression))

\* parse: [err, first, arithmetic]; err = NoError when an Expression is
\* returned, and then first and arithmetic are its fields
Failure(err) == [err |-> err, first |-> Literal(NaN), arithmetic |-> <<>>]

\* parse after the first term: tail is what parseArithmeticTerms gave
Expression(first, tail) ==
  IF tail.err # NoError THEN Failure(tail.err)
  ELSE [err |-> NoError, first |-> first, arithmetic |-> tail.terms]

\* parse after parseFirstTerm
AfterFirst(firstMatch) ==
  IF ~firstMatch.found THEN Failure(InvalidExpression)
  ELSE IF firstMatch.err # NoError THEN Failure(firstMatch.err)
  ELSE Expression(firstMatch.term,
                  parseArithmeticTerms(firstMatch.remaining, <<>>))

\* ParseTrimmed without the test for an empty text
ParseTrimmedUnchecked(trimmed) == AfterFirst(parseFirstTerm(trimmed))

\* parse on the trimmed, lower-cased text
ParseTrimmed(trimmed) ==
  IF trimmed = <<>> THEN Failure(EmptyExpression)
  ELSE AfterFirst(parseFirstTerm(trimmed))

\* parse without the toLowerCase call
ParseAsTyped(expression) == ParseTrimmed(trim(expression))

parse(expression) == ParseTrimmed(toLowerCase(trim(expression)))

\* -------------------------------------------------------------------- roll
\* how many of results are above x, and how many are x or above
Above(results, x) == Cardinality({j \in 1..Len(results) : results[j] > x})

NotBelow(results, x) == Cardinality({j \in 1..Len(results) : results[j] >= x})

\* [...results].sort((a, b) => b - a): in place i, the i-th largest result
SortDesc(results) ==
  [i \in 1..Len(results) |->
     CHOOSE x \in {results[j] : j \in 1..Len(results)} :
       Above(results, x) < i /\ i <= NotBelow(results, x)]

Reverse(s) == [i \in 1..Len(s) |-> s[Len(s) + 1 - i]]

\* the sorted copy of results, order "asc" or "desc"
Sorted(results, order) ==
  IF order = "desc" THEN SortDesc(results) ELSE Reverse(SortDesc(results))

Min(a, b) == IF a < b THEN a ELSE b

\* sortAndKeep without the sort
sortAndKeepUnsorted(results, count, order) ==
  SubSeq(results, 1, Min(count, Len(results)))

\* sorted.slice(0, count)
sortAndKeep(results, count, order) ==
  SubSeq(Sorted(results, order), 1, Min(count, Len(results)))

\* sortAndDrop without the sort
sortAndDropUnsorted(results, count, order) ==
  SubSeq(results, Min(count, Len(results)) + 1, Len(results))

\* sortAndDrop sorting the other way round
sortAndDropOpposite(results, count, order) ==
  SubSeq(Sorted(results, IF order = "asc" THEN "desc" ELSE "asc"),
         Min(count, Len(results)) + 1, Len(results))

\* sorted.slice(count)
sortAndDrop(results, count, order) ==
  SubSeq(Sorted(results, order), Min(count, Len(results)) + 1, Len(results))

RECURSIVE Sum(_)
Sum(s) == IF s = <<>> THEN 0 ELSE Head(s) + Sum(Tail(s))

\* the keep/drop step of roll
FinalResults(term, results) ==
  IF term.keepModifier = "kh" THEN sortAndKeep(results, term.modifierCount, "desc")
  ELSE IF term.keepModifier = "kl" THEN sortAndKeep(results, term.modifierCount, "asc")
  ELSE IF term.dropModifier = "dh" THEN sortAndDrop(results, term.modifierCount, "desc")
  ELSE IF term.dropModifier = "dl" THEN sortAndDrop(results, term.modifierCount, "asc")
  ELSE results

\* the DiceRoll that roll returns; rerollHistory <<>> is the undefined one
DiceRoll(term, results, rerollHistory) ==
  [faces |-> term.faces, results |-> results,
   finalResults |-> FinalResults(term, results),
   total |-> Sum(FinalResults(term, results)),
   rerollHistory |-> rerollHistory]

\* the activation of roll(term): its locals and the rollSingle call it is at
\* ("base" line 487, "once" 496, "rec" 502, "explode" 512/517; "return"
\* when the loop is over, "idle" when no roll is running)
Frame(term) ==
  [term |-> term, results |-> <<>>, rerollHistory |-> <<>>, i |-> 0,
   rollResult |-> 0, index |-> 0, at |-> "base"]

Idle == [Frame(Literal(NaN)) EXCEPT !.at = "idle"]

\* Pushed with no explosion test
PushedNoExplosion(f, rollResult) ==
  [f EXCEPT !.results = Append(f.results, rollResult),
            !.rollResult = rollResult,
            !.i = f.i + 1,
            !.at = IF f.i + 1 < f.term.count THEN "base" ELSE "return"]

\* Pushed with the explosion test made on the die's first draw, the value
\* that a reroll has replaced
PushedTestingFirst(f, rollResult) ==
  LET g == [f EXCEPT !.results = Append(f.results, rollResult),
                     !.rollResult = rollResult]
  IN  IF f.term.explode
         /\ (IF f.at \in {"once", "rec"} THEN f.rollResult ELSE rollResult)
              = f.term.faces
      THEN [g EXCEPT !.at = "explode"]
      ELSE [g EXCEPT !.i = f.i + 1,
                     !.at = IF f.i + 1 < f.term.count THEN "base" ELSE "return"]

\* results.push(rollResult), the explosion test and the i++ of the loop
Pushed(f, rollResult) ==
  LET g == [f EXCEPT !.results = Append(f.results, rollResult),
                     !.rollResult = rollResult]
  IN  IF f.term.explode /\ rollResult = f.term.faces
      THEN [g EXCEPT !.at = "explode"]
      ELSE [g EXCEPT !.i = f.i + 1,
                     !.at = IF f.i + 1 < f.term.count THEN "base" ELSE "return"]

\* Exploded drawing one extra die only, whatever it shows
ExplodedOnce(f, explodeRoll) ==
  [f EXCEPT !.results = Append(f.results, explodeRoll),
            !.i = f.i + 1,
            !.at = IF f.i + 1 < f.term.count THEN "base" ELSE "return"]

\* an explosion draw: pushed, and the chain goes on while it shows the top face
Exploded(f, explodeRoll) ==
  LET g == [f EXCEPT !.results = Append(f.results, explodeRoll)]
  IN  IF explodeRoll = f.term.faces THEN g
      ELSE [g EXCEPT !.i = f.i + 1,
                     !.at = IF f.i + 1 < f.term.count THEN "base" ELSE "return"]

\* ---------------------------------------------------------------- evaluate
\* the switch on term.operator
ApplyOperator(operator, total, value) ==
  IF operator = "+" THEN JsAdd(total, value)
  ELSE IF operator = "-" THEN JsSub(total, value)
  ELSE IF operator = "*" THEN JsMul(total, value)
  ELSE JsFloorDiv(total, value)

\* results.join(',') between brackets, as pieces of text
RECURSIVE Join(_)
Join(results) ==
  IF results = <<>> THEN <<>>
  ELSE IF Len(results) = 1 THEN <<ToString(results[1])>>
  ELSE <<ToString(Head(results)), ",">> \o Join(Tail(results))

Bracket(results) == <<"[">> \o Join(results) \o <<"]">>

\* RollDetail showing finalResults whenever they are not the results, in
\* number or in order
RollDetailWhenDiffer(roll) ==
  Bracket(roll.results)
    \o (IF roll.finalResults # roll.results
        THEN <<"→">> \o Bracket(roll.finalResults) ELSE <<>>)

\* the text of one roll in detail
RollDetail(roll) ==
  Bracket(roll.results)
    \o (IF Len(roll.finalResults) # Len(roll.results)
        THEN <<"→">> \o Bracket(roll.finalResults) ELSE <<>>)

RECURSIVE Resume(_, _, _, _, _)

\* Resume with a division by a literal 0 thrown as an error where it is met
ResumeThrowing(expr, k, rollsNow, totalNow, detailNow) ==
  IF k > Len(expr.arithmetic)
  THEN [pc |-> "done", k |-> k, cur |-> Idle, rolls |-> rollsNow,
        total |-> totalNow, detail |-> detailNow]
  ELSE LET term == expr.arithmetic[k]
       IN  IF term.value.kind = "num" /\ term.operator = "/"
              /\ term.value.value = Num(0)
           THEN [pc |-> "failed", k |-> k, cur |-> Idle, rolls |-> rollsNow,
                 total |-> totalNow, detail |-> detailNow]
           ELSE IF term.value.kind = "num"
           THEN Resume(expr, k + 1, rollsNow,
                       ApplyOperator(term.operator, totalNow, term.value.value),
                       detailNow \o <<" ", term.operator, " ",
                                      JsString(term.value.value)>>)
           ELSE [pc |-> "rolling", k |-> k, cur |-> Frame(term.value),
                 rolls |-> rollsNow, total |-> totalNow, detail |-> detailNow]

\* the total after the literal term k when * and / bind tighter than the
\* + or - of the literal term before it
WithPrecedence(expr, k, totalNow) ==
  LET term == expr.arithmetic[k]
      prev == IF k > 1 THEN expr.arithmetic[k - 1] ELSE term
  IN  IF k > 1 /\ term.operator \in {"*", "/"} /\ prev.value.kind = "num"
         /\ prev.operator \in {"+", "-"}
      THEN ApplyOperator(prev.operator,
             ApplyOperator(IF prev.operator = "+" THEN "-" ELSE "+", totalNow,
                           prev.value.value),
             ApplyOperator(term.operator, prev.value.value, term.value.value))
      ELSE ApplyOperator(term.operator, totalNow, term.value.value)

\* Resume with operator precedence
ResumePrecedence(expr, k, rollsNow, totalNow, detailNow) ==
  IF k > Len(expr.arithmetic)
  THEN [pc |-> "done", k |-> k, cur |-> Idle, rolls |-> rollsNow,
        total |-> totalNow, detail |-> detailNow]
  ELSE LET term == expr.arithmetic[k]
       IN  IF term.value.kind = "num"
           THEN Resume(expr, k + 1, rollsNow, WithPrecedence(expr, k, totalNow),
                       detailNow \o <<" ", term.operator, " ",
                                      JsString(term.value.value)>>)
           ELSE [pc |-> "rolling", k |-> k, cur |-> Frame(term.value),
                 rolls |-> rollsNow, total |-> totalNow, detail |-> detailNow]

\* the for loop over parsed.arithmetic from its element k on, up to the
\* next rollSingle call or the return
Resume(expr, k, rollsNow, totalNow, detailNow) ==
  IF k > Len(expr.arithmetic)
  THEN [pc |-> "done", k |-> k, cur |-> Idle, rolls |-> rollsNow,
        total |-> totalNow, detail |-> detailNow]
  ELSE LET term == expr.arithmetic[k]
       IN  IF term.value.kind = "num"
           THEN Resume(expr, k + 1, rollsNow,
                       ApplyOperator(term.operator, totalNow, term.value.value),
                       detailNow \o <<" ", term.operator, " ",
                                      JsString(term.value.value)>>)
           ELSE [pc |-> "rolling", k |-> k, cur |-> Frame(term.value),
                 rolls |-> rollsNow, total |-> totalNow, detail |-> detailNow]

\* evaluate from its first line to the first rollSingle call or the return
Begin(expr) ==
  IF expr.first.kind = "num"
  THEN Resume(expr, 1, <<>>, expr.first.value, <<JsString(expr.first.value)>>)
  ELSE [pc |-> "rolling", k |-> 0, cur |-> Frame(expr.first), rolls |-> <<>>,
        total |-> Num(0), detail |-> <<>>]

\* Returned putting the Roll before the earlier ones
ReturnedFirst(expr, k, rollsNow, totalNow, detailNow, roll) ==
  IF k = 0
  THEN Resume(expr, 1, <<roll>> \o rollsNow, Num(roll.total), RollDetail(roll))
  ELSE Resume(expr, k + 1, <<roll>> \o rollsNow,
              ApplyOperator(expr.arithmetic[k].operator, totalNow, Num(roll.total)),
              detailNow \o <<" ", expr.arithmetic[k].operator, " ">>
                        \o RollDetail(roll))

\* roll has returned for term k (0: the first term): combine and go on
Returned(expr, k, rollsNow, totalNow, detailNow, roll) ==
  IF k = 0
  THEN Resume(expr, 1, Append(rollsNow, roll), Num(roll.total), RollDetail(roll))
  ELSE Resume(expr, k + 1, Append(rollsNow, roll),
              ApplyOperator(expr.arithmetic[k].operator, totalNow, Num(roll.total)),
              detailNow \o <<" ", expr.arithmetic[k].operator, " ">>
                        \o RollDetail(roll))

\* ------------------------------------------------------------------ format
\* a JavaScript value that is undefined, a string or a boolean
Undefined == [k |-> "undefined", s |-> <<>>, b |-> FALSE]

Str(s) == [k |-> "string", s |-> s, b |-> FALSE]

Bool(b) == [k |-> "boolean", s |-> <<>>, b |-> b]

\* parts.join(sep)
RECURSIVE JoinWith(_, _)
JoinWith(parts, sep) ==
  IF parts = <<>> THEN ""
  ELSE IF Len(parts) = 1 THEN parts[1]
  ELSE Head(parts) \o sep \o JoinWith(Tail(parts), sep)

Strings(values) == [i \in 1..Len(values) |-> ToString(values[i])]

\* rerollHistory.find((r) => r.index === index): the first such record
Found(rerollHistory, index) ==
  {a \in 1..Len(rerollHistory) :
     /\ rerollHistory[a].index = index
     /\ \A b \in 1..(a - 1) : rerollHistory[b].index # index}

\* markRerolledValues, as the values shown for each result: the result, or
\* the original value of the record found and the result
markRerolledValues(results, rerollHistory) ==
  [i \in 1..Len(results) |->
     IF Found(rerollHistory, i - 1) = {} THEN <<results[i]>>
     ELSE <<rerollHistory[CHOOSE a \in Found(rerollHistory, i - 1) : TRUE].originalValue,
            results[i]>>]

\* result.toString(), or `~~${rerolled.originalValue}~~→${result}`
Marked(values) ==
  IF Len(values) = 1 THEN ToString(values[1])
  ELSE "~~" \o ToString(values[1]) \o "~~→" \o ToString(values[2])

MarkedStrings(shown) == [i \in 1..Len(shown) |-> Marked(shown[i])]

RerollDescriptions(rerollHistory) ==
  [a \in 1..Len(rerollHistory) |->
     ToString(rerollHistory[a].originalValue) \o "→"
       \o ToString(rerollHistory[a].rerolledValue)]

formatRerollHistory(rerollHistory) ==
  IF rerollHistory = <<>> THEN ""
  ELSE "(重骰: " \o JoinWith(RerollDescriptions(rerollHistory), ", ") \o ")"

formatRollDetail(roll) ==
  JoinWith(
    <<"[" \o JoinWith(MarkedStrings(markRerolledValues(roll.results,
                                                       roll.rerollHistory)), ",")
          \o "]">>
      \o (IF Len(roll.finalResults) # Len(roll.results)
          THEN <<"→[" \o JoinWith(Strings(roll.finalResults), ",") \o "]">>
          ELSE <<>>)
      \o (IF roll.rerollHistory # <<>>
          THEN <<formatRerollHistory(roll.rerollHistory)>> ELSE <<>>),
    " ")

RollDetails(rollsNow) == [j \in 1..Len(rollsNow) |-> formatRollDetail(rollsNow[j])]

formatWithReroll(diceResult, emoji) ==
  JoinWith(<<emoji \o diceResult.expression>> \o RollDetails(diceResult.rolls)
             \o <<"= " \o JsString(diceResult.total)>>,
           " ")

\* the glyph U+1F3B2 and a space, the glyph written (die) here
Emoji(showEmoji) ==
  IF showEmoji.k = "undefined" \/ showEmoji.b THEN "(die) " ELSE ""

\* DescriptionLine adding every description that is not empty
DescriptionLineUntrimmed(description) ==
  IF description.k = "string" /\ description.s # <<>>
  THEN JoinWith(description.s, "") \o "\n" ELSE ""

\* if (description && description.trim()) result += `${description}\n`
DescriptionLine(description) ==
  IF description.k = "string" /\ description.s # <<>> /\ trim(description.s) # <<>>
  THEN JoinWith(description.s, "") \o "\n" ELSE ""

hasReroll(rollsNow) == \E j \in 1..Len(rollsNow) : rollsNow[j].rerollHistory # <<>>

\* the DiceResult that evaluate returns, its strings put together
DiceResult(expression, rollsNow, totalNow, detailNow) ==
  [expression |-> JoinWith(expression, ""), rolls |-> rollsNow,
   total |-> totalNow, detail |-> JoinWith(detailNow, "")]

Options(description, showEmoji) ==
  [description |-> description, showEmoji |-> showEmoji]

NoOptions == Options(Undefined, Undefined)

format(diceResult, opts) ==
  DescriptionLine(opts.description)
    \o (IF hasReroll(diceResult.rolls)
        THEN formatWithReroll(diceResult, Emoji(opts.showEmoji))
        ELSE Emoji(opts.showEmoji) \o diceResult.expression \o " = "
               \o diceResult.detail \o " = " \o JsString(diceResult.total))

\* ------------------------------------------------------------- the machine
VARIABLES
  input,    \* the expression handed to evaluate
  shape,    \* where in the grammar the typed input stands
  pc,       \* "input", "rolling", "done" (returned) or "failed" (thrown)
  parsed,   \* what parse returned or threw
  k,        \* the term being rolled: 0 the first, j the j-th arithmetic term
  cur,      \* the activation of roll
  rolls,    \* evaluate's rolls
  total,    \* evaluate's total
  detail,   \* evaluate's detail, in pieces
  draws,    \* the number of rollSingle calls so far
  drawn,    \* what those calls returned, in their order
  before,   \* the outcome of the evaluation before this one, if there was one
  options,  \* the options that format was given
  output    \* the string that format returned

vars ==
  <<input, shape, pc, parsed, k, cur, rolls, total, detail, draws, drawn, before,
    options, output>>

\* what an evaluation left behind: how it ended, what parse returned or
\* threw, the draws it made and the Result
Ended(how, expression, values, rollsThen, totalThen, detailThen) ==
  [pc |-> how, parsed |-> expression, drawn |-> values, rolls |-> rollsThen,
   total |-> totalThen, detail |-> detailThen]

NoOutcome == Ended("none", Failure(NoError), <<>>, <<>>, Num(0), <<>>)

\* what is typed at once
Tokens ==
  {<<"0">>, <<"1">>, <<"2">>, <<"d">>, <<"D">>, <<"k", "h">>, <<"k", "l">>,
   <<"d", "h">>, <<"d", "l">>, <<"!">>, <<"r">>, <<"r", "r">>, <<"+">>,
   <<"-">>, <<"*">>, <<"/">>, <<" ">>, <<"x">>}

TokenClass(t) ==
  IF t[1] \in DigitChars THEN "digit"
  ELSE IF Len(t) = 2 /\ t[1] \in {"k", "d"} THEN "keepdrop"
  ELSE IF t[1] \in {"d", "D"} THEN "d"
  ELSE IF t[1] = "r" THEN "reroll"
  ELSE IF t[1] \in Operators THEN "operator"
  ELSE IF t[1] = " " THEN "space"
  ELSE IF t[1] = "!" THEN "bang"
  ELSE "other"

\* the place in  Term (Operator Term)*  after one more token; "stray" after
\* a token the grammar has no place for, and nothing is typed after that one
NextShape(sh, t) ==
  LET c == TokenClass(t)
  IN  CASE sh \in {"lead", "operator"} ->
             (IF c = "digit" THEN "number" ELSE IF c = "d" THEN "d"
              ELSE IF c = "space" /\ sh = "lead" THEN "lead" ELSE "stray")
        [] sh = "number" ->
             (IF c = "digit" THEN "number" ELSE IF c = "d" THEN "d"
              ELSE IF c = "operator" THEN "operator"
              ELSE IF c = "space" THEN "gap" ELSE "stray")
        [] sh = "d" -> (IF c = "digit" THEN "faces" ELSE "stray")
        [] sh = "gap" ->
             (IF c = "operator" THEN "operator"
              ELSE IF c = "space" THEN "gap" ELSE "stray")
        [] OTHER ->
             (IF c = "operator" THEN "operator"
              ELSE IF c = "space" THEN "gap"
              ELSE IF c = "digit" /\ sh \in {"faces", "count", "threshold"} THEN sh
              ELSE IF c = "digit" /\ sh = "keepdrop" THEN "count"
              ELSE IF c = "digit" /\ sh = "reroll" THEN "threshold"
              ELSE IF c = "keepdrop" /\ sh = "faces" THEN "keepdrop"
              ELSE IF c = "bang" /\ sh \in {"faces", "keepdrop", "count"} THEN "bang"
              ELSE IF c = "reroll" /\ sh \in {"faces", "keepdrop", "count", "bang"}
                   THEN "reroll"
              ELSE "stray")

\* longer expressions: those of the repository's tests and of the
\* specification's scenarios, and variants of them
Seeds ==
  {<<"d", "2", "0">>,
   <<"3", "d", "6", "+", "2">>,
   <<"4", "d", "6", "k", "h", "1">>,
   <<"4", "d", "6", "k", "h", "1", "r", "1">>,
   <<"2", "d", "1", "0", "r", "2", "+", "3">>,
   <<"3", "d", "6", "+", "2", "d", "4", "-", "1">>,
   <<"3", "d", "6", "+", "2", "*", "3">>,
   <<"3", "d", "6", "+", "d", "4">>,
   <<"3", "d", "6", "+", "0", "d", "4">>,
   <<"3", "d", "6", "+", "x", "y", "z">>,
   <<"d", "1", "0", "r", "1", "0">>,
   <<"x", "y", "z">>,
   <<"3", "d", "6", "k", "h", "2", "r", "1">>,
   <<"1", "+", "d", "1", "0", "r", "1", "0">>,
   <<"6", "/", "2", "d", "6", "d", "l", "2">>,
   <<"3", "d", "6", "/", "0">>,
   <<"d", "1", "0", "r", "r", "2">>,
   <<"3", "d", "6", "r", "r", "1", "+", "2">>,
   <<"1", "-", "2", "/", "1", "d", "2">>,
   <<"2", "d", "3", "k", "h", "2", "+", "1">>,
   <<"2", "d", "6", "r", "2", "+", "5">>,
   <<"1", "d", "2", "+", "2", "+", "1", "d", "3">>,
   <<"3", "d", "6", " ", "+", "2">>,
   <<"3", "d", "6", "+", " ", "2">>,
   <<"3", "d", "6", " ", "+", " ", "2">>,
   <<"3", " ", "d", "6">>,
   <<"3", "d", "6", " ", "k", "h", "1">>}

Init ==
  /\ input \in Seeds \cup {<<>>}
  /\ shape = (IF input = <<>> THEN "lead" ELSE "whole")
  /\ pc = "input"
  /\ parsed = Failure(NoError)
  /\ k = 0
  /\ cur = Idle
  /\ rolls = <<>>
  /\ total = Num(0)
  /\ detail = <<>>
  /\ draws = 0
  /\ drawn = <<>>
  /\ before = NoOutcome
  /\ options = NoOptions
  /\ output = ""

\* the caller builds the expression, one token more
Type(t) ==
  /\ pc = "input"
  /\ shape \notin {"stray", "whole"}
  /\ Len(input) < MaxLen
  /\ input' = input \o t
  /\ shape' = NextShape(shape, t)
  /\ UNCHANGED <<pc, parsed, k, cur, rolls, total, detail, draws, drawn, before,
                 options, output>>

\* the machine moves to m, a record of Begin, Resume or Returned
Goto(m) ==
  \E n \in {m} :
    /\ pc' = n.pc
    /\ k' = n.k
    /\ cur' = n.cur
    /\ rolls' = n.rolls
    /\ total' = n.total
    /\ detail' = n.detail

\* Evaluate with rolls a static array that evaluate does not empty
EvaluateShared ==
  /\ pc = "input"
  /\ \E p \in {parse(input)} :
       /\ parsed' = p
       /\ IF p.err # NoError
          THEN pc' = "failed" /\ UNCHANGED <<k, cur, rolls, total, detail>>
          ELSE Goto([Begin(p) EXCEPT !.rolls = rolls \o @])
  /\ UNCHANGED <<input, shape, draws, drawn, before, options, output>>

\* evaluate(input), up to its first rollSingle call
Evaluate ==
  /\ pc = "input"
  /\ \E p \in {parse(input)} :
       /\ parsed' = p
       /\ IF p.err # NoError
          THEN pc' = "failed" /\ UNCHANGED <<k, cur, rolls, total, detail>>
          ELSE Goto(Begin(p))
  /\ UNCHANGED <<input, shape, draws, drawn, before, options, output>>

\* the draw v prolongs the loop roll is in: the while of line 500 goes
\* round again, or the while of line 516 does
Continues(v) ==
  \/ cur.at = "rec" /\ v <= cur.term.rerollThreshold[1]
  \/ cur.at = "explode" /\ v = cur.term.faces

\* rollSingle(faces) may return v, and the call is within the bounds: a
\* whole dice term is rolled to its end, MaxDraws bounding only the draws
\* that prolong a loop
CanDraw(v) ==
  /\ pc = "rolling"
  /\ cur.term.faces <= MaxFaces
  /\ v \in 1..cur.term.faces
  /\ draws < MaxDraws \/ (shape = "roll" /\ ~Continues(v))

\* roll moves to frame f: goes on, or returns to evaluate
Step(f) ==
  \E g \in {f} :
    /\ draws' = draws + 1
    /\ IF g.at = "return"
       THEN \E roll \in {DiceRoll(g.term, g.results, g.rerollHistory)} :
              Goto(Returned(parsed, k, rolls, total, detail, roll))
       ELSE /\ cur' = g
            /\ UNCHANGED <<pc, k, rolls, total, detail>>
    /\ UNCHANGED <<input, shape, parsed, before, options, output>>

\* MustReroll with the test  rollResult < term.rerollThreshold
MustRerollBelow(term, rollResult) ==
  term.reroll # "none" /\ rollResult < term.rerollThreshold[1]

MustReroll(term, rollResult) ==
  term.reroll # "none" /\ rollResult <= term.rerollThreshold[1]

\* DrawBase recording the die's number as index, not results.length
DrawBaseDieIndex(v) ==
  /\ CanDraw(v)
  /\ drawn' = Append(drawn, v)
  /\ cur.at = "base"
  /\ Step(IF MustReroll(cur.term, v) /\ cur.term.reroll \in {"r", "rr"}
          THEN [cur EXCEPT !.rollResult = v, !.index = cur.i,
                           !.at = IF cur.term.reroll = "r" THEN "once" ELSE "rec"]
          ELSE Pushed(cur, v))

\* line 487: the die's own draw
DrawBase(v) ==
  /\ CanDraw(v)
  /\ drawn' = Append(drawn, v)
  /\ cur.at = "base"
  /\ Step(IF MustReroll(cur.term, v) /\ cur.term.reroll \in {"r", "rr"}
          THEN [cur EXCEPT !.rollResult = v, !.index = Len(cur.results),
                           !.at = IF cur.term.reroll = "r" THEN "once" ELSE "rec"]
          ELSE Pushed(cur, v))

\* DrawRerollOnce pushing the replaced value as well as its replacement
DrawRerollOnceKeepingBoth(v) ==
  /\ CanDraw(v)
  /\ drawn' = Append(drawn, v)
  /\ cur.at = "once"
  /\ Step(Pushed([cur EXCEPT !.results = Append(cur.results, cur.rollResult),
                             !.rerollHistory =
                    Append(cur.rerollHistory,
                           [originalValue |-> cur.rollResult, rerolledValue |-> v,
                            index |-> cur.index])], v))

\* DrawRerollOnce drawing again when the replacement is within the threshold
DrawRerollOnceAgain(v) ==
  /\ CanDraw(v)
  /\ drawn' = Append(drawn, v)
  /\ cur.at = "once"
  /\ LET f == [cur EXCEPT !.rerollHistory =
                 Append(cur.rerollHistory,
                        [originalValue |-> cur.rollResult, rerolledValue |-> v,
                         index |-> cur.index])]
     IN  Step(IF v <= cur.term.rerollThreshold[1]
              THEN [f EXCEPT !.rollResult = v]
              ELSE Pushed(f, v))

\* line 496: the one replacement of reroll-once
DrawRerollOnce(v) ==
  /\ CanDraw(v)
  /\ drawn' = Append(drawn, v)
  /\ cur.at = "once"
  /\ Step(Pushed([cur EXCEPT !.rerollHistory =
                    Append(cur.rerollHistory,
                           [originalValue |-> cur.rollResult, rerolledValue |-> v,
                            index |-> cur.index])], v))

\* DrawRerollRec with the loop test  rollResult < term.rerollThreshold
DrawRerollRecBelow(v) ==
  /\ CanDraw(v)
  /\ drawn' = Append(drawn, v)
  /\ cur.at = "rec"
  /\ LET f == [cur EXCEPT !.rerollHistory =
                 Append(cur.rerollHistory,
                        [originalValue |-> cur.rollResult, rerolledValue |-> v,
                         index |-> cur.index])]
     IN  Step(IF v < cur.term.rerollThreshold[1]
              THEN [f EXCEPT !.rollResult = v]
              ELSE Pushed(f, v))

\* line 502: one replacement of the recursive reroll
DrawRerollRec(v) ==
  /\ CanDraw(v)
  /\ drawn' = Append(drawn, v)
  /\ cur.at = "rec"
  /\ LET f == [cur EXCEPT !.rerollHistory =
                 Append(cur.rerollHistory,
                        [originalValue |-> cur.rollResult, rerolledValue |-> v,
                         index |-> cur.index])]
     IN  Step(IF v <= cur.term.rerollThreshold[1]
              THEN [f EXCEPT !.rollResult = v]
              ELSE Pushed(f, v))

\* lines 512 and 517: one extra die of an explosion
DrawExplode(v) ==
  /\ CanDraw(v)
  /\ drawn' = Append(drawn, v)
  /\ cur.at = "explode"
  /\ Step(Exploded(cur, v))

Next ==
  \/ \E t \in Tokens : Type(t)
  \/ Evaluate
  \/ \E v \in 1..MaxFaces : DrawBase(v)
  \/ \E v \in 1..MaxFaces : DrawRerollOnce(v)
  \/ \E v \in 1..MaxFaces : DrawRerollRec(v)
  \/ \E v \in 1..MaxFaces : DrawExplode(v)

Spec == Init /\ [][Next]_vars

\* ----------------------------------------------- whole dice terms, rolled
\* the texts  count? d faces (keepdrop n?)? !? (reroll t?)?  over small parts
Counts == {<<>>, <<"1">>, <<"2">>}

Sides == {<<"1">>, <<"2">>, <<"3">>}

KeepDrops ==
  {<<>>} \cup {kd \o n : kd \in {<<"k", "h">>, <<"k", "l">>, <<"d", "h">>, <<"d", "l">>},
                         n \in {<<>>, <<"1">>, <<"2">>}}

Explodes == {<<>>, <<"!">>}

Rerolls ==
  {<<>>} \cup {r \o t : r \in {<<"r">>, <<"r", "r">>},
                        t \in {<<>>, <<"0">>, <<"1">>, <<"2">>, <<"3">>}}

RollInputs ==
  {c \o <<"d">> \o f \o kd \o e \o r :
     c \in Counts, f \in Sides, kd \in KeepDrops, e \in Explodes, r \in Rerolls}

\* evaluate is handed a whole dice term
InitRoll ==
  /\ input \in RollInputs
  /\ shape = "roll"
  /\ pc = "input"
  /\ parsed = Failure(NoError)
  /\ k = 0
  /\ cur = Idle
  /\ rolls = <<>>
  /\ total = Num(0)
  /\ detail = <<>>
  /\ draws = 0
  /\ drawn = <<>>
  /\ before = NoOutcome
  /\ options = NoOptions
  /\ output = ""

NextRoll ==
  \/ Evaluate
  \/ \E v \in 1..MaxFaces : DrawBase(v)
  \/ \E v \in 1..MaxFaces : DrawRerollOnce(v)
  \/ \E v \in 1..MaxFaces : DrawRerollRec(v)
  \/ \E v \in 1..MaxFaces : DrawExplode(v)

\* rollSingle returns v, wherever in roll it is called
Draw(v) == DrawBase(v) \/ DrawRerollOnce(v) \/ DrawRerollRec(v) \/ DrawExplode(v)

\* the random source is fair: a face that can be drawn time and again is
\* drawn
Fairness == \A v \in 1..MaxFaces : WF_vars(Draw(v))

RollSpec == InitRoll /\ [][NextRoll]_vars /\ Fairness

\* ------------------------------------------------- evaluate, called again
\* the r command is given the same expression once more: evaluate is called
\* anew, and what the call before left behind is kept for comparison
Again ==
  /\ pc \in {"done", "failed"}
  /\ before = NoOutcome
  /\ before' = Ended(pc, parsed, drawn, rolls, total, detail)
  /\ pc' = "input"
  /\ draws' = 0
  /\ drawn' = <<>>
  /\ UNCHANGED <<input, shape, parsed, k, cur, rolls, total, detail, options, output>>

\* expressions evaluated twice over
TwiceInputs ==
  {<<"1", "d", "2", "+", "2", "+", "1", "d", "3">>,
   <<"2", "d", "3", "k", "h", "1", "!">>,
   <<"2", "d", "3", "d", "l", "1", "r", "2">>,
   <<"d", "3", "r", "r", "2", "*", "2">>,
   <<"6", "/", "1", "d", "2", "-", "1">>,
   <<"d", "3", "r", "3">>,
   <<"2", "+", "3">>}

InitTwice ==
  /\ input \in TwiceInputs
  /\ shape = "roll"
  /\ pc = "input"
  /\ parsed = Failure(NoError)
  /\ k = 0
  /\ cur = Idle
  /\ rolls = <<>>
  /\ total = Num(0)
  /\ detail = <<>>
  /\ draws = 0
  /\ drawn = <<>>
  /\ before = NoOutcome
  /\ options = NoOptions
  /\ output = ""

NextTwice ==
  \/ Evaluate
  \/ \E v \in 1..MaxFaces : DrawBase(v)
  \/ \E v \in 1..MaxFaces : DrawRerollOnce(v)
  \/ \E v \in 1..MaxFaces : DrawRerollRec(v)
  \/ \E v \in 1..MaxFaces : DrawExplode(v)
  \/ Again

TwiceSpec == InitTwice /\ [][NextTwice]_vars

\* ------------------------------------------------------ the Result, shown
Descriptions ==
  {Undefined, Str(<<>>), Str(<<" ">>), Str(<<"h", "i", "t">>), Str(<<" ", "h">>)}

ShowEmojis == {Undefined, Bool(TRUE), Bool(FALSE)}

\* DiceFormatter.format(result, opts), evaluate having returned
Format(opts) ==
  /\ pc = "done"
  /\ pc' = "shown"
  /\ options' = opts
  /\ output' = format(DiceResult(input, rolls, total, detail), opts)
  /\ UNCHANGED <<input, shape, parsed, k, cur, rolls, total, detail, draws,
                 drawn, before>>

FormatInputs ==
  {<<"3", "d", "6", "+", "2">>,
   <<"4", "d", "6", "k", "h", "1">>,
   <<"d", "3", "r", "r", "2">>,
   <<"2", "d", "6", "r", "2", "+", "5">>,
   <<"2", "d", "3", "k", "h", "1", "r", "r">>,
   <<"2", "d", "3", "!", "r", "2", "-", "1", "d", "2">>,
   <<"2", "d", "3", "k", "h", "2", "+", "1">>,
   <<"6", "/", "1", "d", "2", "d", "l">>,
   <<"7">>}

InitFormat ==
  /\ input \in FormatInputs
  /\ shape = "roll"
  /\ pc = "input"
  /\ parsed = Failure(NoError)
  /\ k = 0
  /\ cur = Idle
  /\ rolls = <<>>
  /\ total = Num(0)
  /\ detail = <<>>
  /\ draws = 0
  /\ drawn = <<>>
  /\ before = NoOutcome
  /\ options = NoOptions
  /\ output = ""

NextFormat ==
  \/ Evaluate
  \/ \E v \in 1..MaxFaces : DrawBase(v)
  \/ \E v \in 1..MaxFaces : DrawRerollOnce(v)
  \/ \E v \in 1..MaxFaces : DrawRerollRec(v)
  \/ \E v \in 1..MaxFaces : DrawExplode(v)
  \/ \E d \in Descriptions : \E e \in ShowEmojis : Format(Options(d, e))

FormatSpec == InitFormat /\ [][NextFormat]_vars

\* ---------------------------------------------------- the grammar, as read
\* The specification's grammar, read from the text itself:
\*   Expression := Term (Operator Term)*      Term := DiceTerm | Integer
\*   DiceTerm := Integer? 'd' Integer (KeepDrop Integer?)? '!'? (RerollKind Integer?)?
\* An operator character stands nowhere inside a term, so the terms of a
\* text are what lies between its operator characters.

\* the text that evaluate's caller means: trimmed, in lower case
Normal(text) == toLowerCase(trim(text))

Blank(text) == \A i \in 1..Len(text) : text[i] \in WhiteSpace

LastOperator(t) ==
  IF \E i \in 1..Len(t) : t[i] \in Operators
  THEN CHOOSE i \in 1..Len(t) :
         t[i] \in Operators /\ \A j \in (i + 1)..Len(t) : t[j] \notin Operators
  ELSE 0

\* the terms of t with the operator before each ("" before the first)
RECURSIVE Pieces(_)
Pieces(t) ==
  IF LastOperator(t) = 0 THEN <<[operator |-> "", text |-> t]>>
  ELSE Pieces(SubSeq(t, 1, LastOperator(t) - 1))
         \o <<[operator |-> t[LastOperator(t)],
               text |-> SubSeq(t, LastOperator(t) + 1, Len(t))]>>

\* one term w read by the grammar: ok when the whole of w is a Term
GrammarTerm(w) ==
  LET n1 == DigitsLen(w, 1)
      n2 == DigitsLen(w, n1 + 2)
      p3 == n1 + 2 + n2
      kd == IF CharAt(w, p3) \in {"k", "d"} /\ CharAt(w, p3 + 1) \in {"h", "l"}
            THEN CharAt(w, p3) \o CharAt(w, p3 + 1) ELSE ""
      p4 == IF kd = "" THEN p3 ELSE p3 + 2
      n4 == IF kd = "" THEN 0 ELSE DigitsLen(w, p4)
      p5 == p4 + n4
      ex == CharAt(w, p5) = "!"
      p6 == IF ex THEN p5 + 1 ELSE p5
      rk == IF CharAt(w, p6) # "r" THEN ""
            ELSE IF CharAt(w, p6 + 1) = "r" THEN "rr" ELSE "r"
      p7 == p6 + Len(rk)
      n7 == IF rk = "" THEN 0 ELSE DigitsLen(w, p7)
      none == [ok |-> FALSE, dice |-> FALSE, count |-> <<>>, faces |-> <<>>,
               keep |-> "", modifier |-> <<>>, explode |-> FALSE,
               reroll |-> "", threshold |-> <<>>]
  IN  IF n1 >= 1 /\ n1 = Len(w)
      THEN [none EXCEPT !.ok = TRUE, !.count = w]
      ELSE IF CharAt(w, n1 + 1) = "d" /\ n2 >= 1 /\ p7 + n7 = Len(w) + 1
      THEN [ok |-> TRUE, dice |-> TRUE, count |-> SubSeq(w, 1, n1),
            faces |-> SubSeq(w, n1 + 2, n1 + 1 + n2), keep |-> kd,
            modifier |-> SubSeq(w, p4, p4 + n4 - 1), explode |-> ex,
            reroll |-> rk, threshold |-> SubSeq(w, p7, p7 + n7 - 1)]
      ELSE none

\* the terms of t as the grammar reads them
Read(t) == [j \in 1..Len(Pieces(t)) |-> GrammarTerm(Pieces(t)[j].text)]

\* t is an Expression of the grammar
Derivable(t) == \A j \in 1..Len(Read(t)) : Read(t)[j].ok

Given(text) == IF text = <<>> THEN 1 ELSE DecimalValue(text)

\* the rule of section 4.1 a dice term g breaks first, NoError if none
Broken(g) ==
  IF ~g.dice THEN NoError
  ELSE IF Given(g.count) < 1 THEN InvalidDiceCount
  ELSE IF DecimalValue(g.faces) < 1 THEN InvalidFaceCount
  ELSE IF Given(g.modifier) < 1 THEN InvalidModifierCount
  ELSE IF Given(g.modifier) > Given(g.count) THEN ModifierExceedsCount
  ELSE IF g.reroll # "" /\ (Given(g.threshold) < 1
                            \/ Given(g.threshold) >= DecimalValue(g.faces))
       THEN InvalidRerollThreshold
  ELSE NoError

\* the first rule broken in t, its terms taken from the left
RECURSIVE FirstBrokenFrom(_, _)
FirstBrokenFrom(terms, j) ==
  IF j > Len(terms) THEN NoError
  ELSE IF Broken(terms[j]) # NoError THEN Broken(terms[j])
  ELSE FirstBrokenFrom(terms, j + 1)

FirstBroken(t) == FirstBrokenFrom(Read(t), 1)

\* the DiceTerm of section 3 that the dice term g denotes
Denoted(g) ==
  [kind |-> "dice", count |-> Given(g.count), faces |-> DecimalValue(g.faces),
   keepModifier |-> IF g.keep \in {"kh", "kl"} THEN g.keep ELSE "none",
   dropModifier |-> IF g.keep \in {"dh", "dl"} THEN g.keep ELSE "none",
   modifierCount |-> Given(g.modifier), explode |-> g.explode,
   reroll |-> IF g.reroll = "" THEN "none" ELSE g.reroll,
   rerollThreshold |-> IF g.reroll = "" THEN <<>> ELSE <<Given(g.threshold)>>]

\* parse has run on input
Parsed == pc # "input"

Accepted == Parsed /\ parsed.err = NoError

\* the j-th term of the Expression returned, the first being term 1
TermOf(j) == IF j = 1 THEN parsed.first ELSE parsed.arithmetic[j - 1].value

IsInteger(term) == term.kind = "num" /\ term.value.k = "int"

\* ------------------------------------------------------------------ claims
PartRules ==
  {InvalidDiceCount, InvalidFaceCount, InvalidModifierCount, ModifierExceedsCount}

\* C1: an expression of the grammar in which the first rule broken is one
\* of count >= 1, faces >= 1, 1 <= modifierCount <= count, in whatever term
\* and whether or not the term's count is written, is rejected by parse
\* with that rule's error before any die is rolled.
C1_InvalidTermRejected ==
  (Parsed /\ Derivable(Normal(input)) /\ FirstBroken(Normal(input)) \in PartRules)
    => (pc = "failed" /\ parsed.err = FirstBroken(Normal(input)) /\ draws = 0)

\* C2: an expression of the grammar in which the first rule broken is
\* 1 <= threshold < faces of a term with a reroll kind is rejected by parse
\* with InvalidRerollThreshold.
C2_BadThresholdRejected ==
  (Parsed /\ Derivable(Normal(input))
     /\ FirstBroken(Normal(input)) = InvalidRerollThreshold)
    => (pc = "failed" /\ parsed.err = InvalidRerollThreshold)

\* C3: in every term position of an accepted expression of the grammar, a
\* dice term is parsed as a DiceTerm whose count is 1 when no count is
\* written, whose modifierCount is 1 when keep/drop has no count and whose
\* rerollThreshold is 1 when the reroll kind has no threshold.
C3_OmittedCountsDefault ==
  (Accepted /\ Derivable(Normal(input)))
    => \A j \in 1..Len(Read(Normal(input))) :
         Read(Normal(input))[j].dice =>
           /\ j <= 1 + Len(parsed.arithmetic)
           /\ TermOf(j).kind = "dice"
           /\ Read(Normal(input))[j].count = <<>> => TermOf(j).count = 1
           /\ (Read(Normal(input))[j].keep # ""
                 /\ Read(Normal(input))[j].modifier = <<>>)
                => TermOf(j).modifierCount = 1
           /\ (Read(Normal(input))[j].reroll # ""
                 /\ Read(Normal(input))[j].threshold = <<>>)
                => TermOf(j).rerollThreshold = <<1>>

\* the text begins with a dice term or with an integer
StartsWithTerm(t) ==
  \/ CharAt(t, 1) \in DigitChars
  \/ CharAt(t, 1) = "d" /\ CharAt(t, 2) \in DigitChars

\* C4: parse, and so evaluate, fails with EmptyExpression on an empty or
\* blank input, and with InvalidExpression on an input whose trimmed text
\* begins with neither a dice term nor an integer.
C4_EmptyAndInvalid ==
  Parsed =>
    /\ Blank(input) => (pc = "failed" /\ parsed.err = EmptyExpression)
    /\ (~Blank(input) /\ ~StartsWithTerm(Normal(input)))
         => (pc = "failed" /\ parsed.err = InvalidExpression)

C4_Witness ==
  /\ pc = "failed"
  /\ input = <<"x", "y", "z">>
  /\ parsed.err = InvalidExpression

\* t without the white space that stands right before an operator
RECURSIVE Squeezed(_)
Squeezed(t) ==
  IF t = <<>> THEN <<>>
  ELSE IF Head(t) \in WhiteSpace /\ CharAt(trimStart(t), 1) \in Operators
  THEN Squeezed(trimStart(t))
  ELSE <<Head(t)>> \o Squeezed(Tail(t))

\* C5: parse accepts an input only if its trimmed, lower-cased text is an
\* Expression of the grammar (white space right before an operator left
\* aside); no other text is consumed or ignored.
C5_OnlyGrammarAccepted ==
  Accepted => Derivable(Squeezed(Normal(input)))

\* the text is one valid dice term, or one followed by an operator and an
\* integer
TermThenInteger(t) ==
  /\ Derivable(t)
  /\ FirstBroken(t) = NoError
  /\ Read(t)[1].dice
  /\ Len(Read(t)) <= 2
  /\ Len(Read(t)) = 2 => ~Read(t)[2].dice

\* C6: an input <dice term> or <dice term><operator><integer> parses to
\* first = the DiceTerm that the text denotes, every modifier and number
\* given to the keyword it follows and rr read as the recursive reroll, and
\* to tail = [] or [(operator, integer)].
C6_LongestMatch ==
  (Parsed /\ TermThenInteger(Normal(input)))
    => parsed =
         [err |-> NoError,
          first |-> Denoted(Read(Normal(input))[1]),
          arithmetic |->
            IF Len(Read(Normal(input))) = 1 THEN <<>>
            ELSE <<[operator |-> Pieces(Normal(input))[2].operator,
                    value |-> [kind |-> "num",
                               value |-> [k |-> "int",
                                          v |-> DecimalValue(
                                                  Pieces(Normal(input))[2].text)]]]>>]

C6_Witness ==
  /\ Parsed
  /\ input = <<"2", "d", "1", "0", "r", "2", "+", "3">>
  /\ parsed.first.reroll = "r"
  /\ parsed.first.rerollThreshold = <<2>>
  /\ parsed.arithmetic = <<[operator |-> "+", value |-> Literal(Num(3))]>>

UpperChar(c) ==
  CASE c = "d" -> "D" [] c = "k" -> "K" [] c = "h" -> "H" [] c = "l" -> "L"
    [] c = "r" -> "R" [] c = "x" -> "X" [] OTHER -> c

Upper(text) == [i \in 1..Len(text) |-> UpperChar(text[i])]

\* the input in other letter case and between other white space
Variants(text) ==
  {Upper(text), <<" ">> \o text, text \o <<" ">>,
   <<" ">> \o Upper(text) \o <<" ", " ">>}

\* C7: inputs that differ only in letter case or in white space around them
\* fail with the same error or parse to the same Expression.
C7_CaseAndSpace ==
  Parsed => \A v \in Variants(input) : parse(v) = parsed

C7_Witness ==
  /\ Accepted
  /\ input = <<" ", "D", "2", "r">>
  /\ parsed.first.reroll = "r"

\* C8: when evaluate fails, no die has been rolled.
C8_NoPartialResults ==
  pc = "failed" => (draws = 0 /\ rolls = <<>>)

C8_Witness ==
  /\ pc = "failed"
  /\ input = <<"3", "d", "6", "+", "0", "d", "4">>
  /\ parsed.err = InvalidDiceCount
  /\ draws = 0

\* C9: every operand of an accepted expression is a DiceTerm or an integer,
\* and evaluate returns an integer total.
C9_AcceptedEvaluates ==
  /\ Accepted =>
       \A j \in 1..(1 + Len(parsed.arithmetic)) :
         TermOf(j).kind = "dice" \/ IsInteger(TermOf(j))
  /\ pc = "done" => total.k = "int"

\* the number of dice terms among the first j terms
RECURSIVE DiceAmong(_)
DiceAmong(j) ==
  IF j = 0 THEN 0
  ELSE DiceAmong(j - 1) + (IF TermOf(j).kind = "dice" THEN 1 ELSE 0)

\* the value of term j: the literal, or the total of the term's Roll
ValueOf(j) ==
  IF TermOf(j).kind = "dice" THEN rolls[DiceAmong(j)].total
  ELSE TermOf(j).value.v

\* ((t1 op2 t2) op3 t3) ... up to term j
RECURSIVE LeftToRight(_)
LeftToRight(j) ==
  IF j = 1 THEN ValueOf(1)
  ELSE LET op == parsed.arithmetic[j - 1].operator
       IN  IF op = "+" THEN LeftToRight(j - 1) + ValueOf(j)
           ELSE IF op = "-" THEN LeftToRight(j - 1) - ValueOf(j)
           ELSE IF op = "*" THEN LeftToRight(j - 1) * ValueOf(j)
           ELSE LeftToRight(j - 1) \div ValueOf(j)

\* every operand is an integer or a dice term, and no divisor is 0
Plain ==
  \A j \in 1..(1 + Len(parsed.arithmetic)) :
    /\ TermOf(j).kind = "dice" \/ IsInteger(TermOf(j))
    /\ (j > 1 /\ parsed.arithmetic[j - 1].operator = "/") => ValueOf(j) # 0

\* C10: the total of t1 op2 t2 op3 t3 ... is ((t1 op2 t2) op3 t3) ..., no
\* operator taking precedence.
C10_LeftToRight ==
  (pc = "done" /\ Plain)
    => total = [k |-> "int", v |-> LeftToRight(1 + Len(parsed.arithmetic))]

C10_Witness ==
  /\ pc = "done"
  /\ input = <<"3", "d", "6", "+", "2", "*", "3">>
  /\ total = [k |-> "int", v |-> (Sum(rolls[1].results) + 2) * 3]

\* the number of terms of the Expression returned
Terms == 1 + Len(parsed.arithmetic)

\* C11: when the last operator of a finished evaluation is / and its operand,
\* a literal or the total of a dice term, is positive, the total q is the
\* floor of (running total / operand): q * operand <= running total <
\* (q + 1) * operand, also for a negative running total.
C11_FloorDivision ==
  (pc = "done" /\ Plain /\ Terms >= 2
     /\ parsed.arithmetic[Terms - 1].operator = "/" /\ ValueOf(Terms) > 0)
    => /\ total.k = "int"
       /\ total.v * ValueOf(Terms) <= LeftToRight(Terms - 1)
       /\ LeftToRight(Terms - 1) < (total.v + 1) * ValueOf(Terms)

\* 1 - 2 is -1, and -1 / [2] is -1, not 0
C11_Witness ==
  /\ pc = "done"
  /\ input = <<"1", "-", "2", "/", "1", "d", "2">>
  /\ rolls[1].total = 2
  /\ total = Num(0 - 1)

\* ------------------------------------------------------- claims about roll
\* the dice term that the j-th Roll of rolls was rolled for
RollTerm(j) ==
  TermOf(CHOOSE i \in 1..Terms : TermOf(i).kind = "dice" /\ DiceAmong(i) = j)

\* how often x occurs in s
Occurs(s, x) == Cardinality({i \in 1..Len(s) : s[i] = x})

Values(s) == {s[i] : i \in 1..Len(s)}

\* every value occurs in part at most as often as in whole
SubBag(part, whole) ==
  \A x \in Values(part) : Occurs(part, x) <= Occurs(whole, x)

\* part holds the n largest values of whole: n values of whole, and with a
\* value every occurrence of every larger one
Largest(part, whole, n) ==
  /\ Len(part) = n
  /\ SubBag(part, whole)
  /\ \A x \in Values(part) : \A y \in Values(whole) :
       y > x => Occurs(part, y) = Occurs(whole, y)

Smallest(part, whole, n) ==
  /\ Len(part) = n
  /\ SubBag(part, whole)
  /\ \A x \in Values(part) : \A y \in Values(whole) :
       y < x => Occurs(part, y) = Occurs(whole, y)

Descending(s) == \A i \in 1..(Len(s) - 1) : s[i] >= s[i + 1]

Ascending(s) == \A i \in 1..(Len(s) - 1) : s[i] <= s[i + 1]

\* the sum of s, added from its last element
RECURSIVE Plus(_)
Plus(s) == IF s = <<>> THEN 0 ELSE Plus(SubSeq(s, 1, Len(s) - 1)) + s[Len(s)]

KeepDropOf(term) ==
  IF term.keepModifier # "none" THEN term.keepModifier ELSE term.dropModifier

\* C12: in every Roll, with N the term's modifier count and the results
\* holding the explosion extras too: keep-high gives the N largest results
\* from the highest down, keep-low the N smallest from the lowest up,
\* drop-high all but the N largest from the highest down, drop-low all but
\* the N smallest from the lowest up, no modifier the results as they are;
\* and the total is the sum of finalResults.
C12_KeepDropSelection ==
  \A j \in 1..Len(rolls) :
    LET raw == rolls[j].results
        final == rolls[j].finalResults
        n == RollTerm(j).modifierCount
        kd == KeepDropOf(RollTerm(j))
    IN  /\ kd = "kh" => (Largest(final, raw, n) /\ Descending(final))
        /\ kd = "kl" => (Smallest(final, raw, n) /\ Ascending(final))
        /\ kd = "dh" => (Smallest(final, raw, Len(raw) - n) /\ Descending(final))
        /\ kd = "dl" => (Largest(final, raw, Len(raw) - n) /\ Ascending(final))
        /\ kd = "none" => final = raw
        /\ rolls[j].total = Plus(final)

\* 2d3dh1! with the draws 3, 1, 2: the 3 explodes, drop-high 1 leaves 2, 1
C12_Witness ==
  /\ pc = "done"
  /\ input = <<"2", "d", "3", "d", "h", "1", "!">>
  /\ rolls[1].results = <<3, 1, 2>>
  /\ rolls[1].finalResults = <<2, 1>>
  /\ rolls[1].total = 3

\* part can be had from whole by leaving elements out
RECURSIVE Subsequence(_, _)
Subsequence(part, whole) ==
  IF part = <<>> THEN TRUE
  ELSE IF whole = <<>> THEN FALSE
  ELSE IF Head(part) = Head(whole) THEN Subsequence(Tail(part), Tail(whole))
  ELSE Subsequence(part, Tail(whole))

\* C13 as stated: in every Roll finalResults is a subsequence of the
\* results, in the same relative order, and no longer than them.
C13_FinalIsSubsequence ==
  \A j \in 1..Len(rolls) :
    /\ Subsequence(rolls[j].finalResults, rolls[j].results)
    /\ Len(rolls[j].finalResults) <= Len(rolls[j].results)

\* C13 amended: in every Roll finalResults is no longer than the results
\* and holds no value more often than they do; under a keep or drop
\* modifier it is listed in the modifier's sort order (from the highest
\* down for kh and dh, from the lowest up for kl and dl), and without a
\* modifier it is the results in their order.
C13_FinalIsSortedSubBag ==
  \A j \in 1..Len(rolls) :
    LET raw == rolls[j].results
        final == rolls[j].finalResults
        kd == KeepDropOf(RollTerm(j))
    IN  /\ Len(final) <= Len(raw)
        /\ SubBag(final, raw)
        /\ kd \in {"kh", "dh"} => Descending(final)
        /\ kd \in {"kl", "dl"} => Ascending(final)
        /\ kd = "none" => final = raw

\* 2d3kh2 with the draws 1, 3: finalResults is 3, 1
C13_Witness ==
  /\ pc = "done"
  /\ input = <<"2", "d", "3", "k", "h", "2">>
  /\ rolls[1].results = <<1, 3>>
  /\ rolls[1].finalResults = <<3, 1>>

SameBag(a, b) == SubBag(a, b) /\ SubBag(b, a)

\* term with its keep/drop modifier replaced
WithKeepDrop(term, keep, drop, n) ==
  [term EXCEPT !.keepModifier = keep, !.dropModifier = drop, !.modifierCount = n]

\* the results of Roll j give, under keep-high n and under drop-low
\* (count - n), the same values and the same total
KeepHighIsDropLow(j, n) ==
  LET high == FinalResults(WithKeepDrop(RollTerm(j), "kh", "none", n),
                           rolls[j].results)
      low == FinalResults(WithKeepDrop(RollTerm(j), "none", "dl",
                                       RollTerm(j).count - n),
                          rolls[j].results)
  IN  SameBag(high, low) /\ Plus(high) = Plus(low)

\* the Roll j is of a term with keep-high n or with drop-low (count - n),
\* 1 <= n < count
Paired(j, n) ==
  /\ n \in 1..(RollTerm(j).count - 1)
  /\ \/ KeepDropOf(RollTerm(j)) = "kh" /\ RollTerm(j).modifierCount = n
     \/ KeepDropOf(RollTerm(j)) = "dl"
          /\ RollTerm(j).modifierCount = RollTerm(j).count - n

\* C14 as stated: for every dice term of count c and every N, 1 <= N < c,
\* the same draws give under keep-high N and under drop-low (c - N) the
\* same finalResults values and the same total.
C14_KeepHighIsDropLow ==
  \A j \in 1..Len(rolls) : \A n \in 1..RollTerm(j).count :
    Paired(j, n) => KeepHighIsDropLow(j, n)

\* C14 amended: for every dice term of count c that does not explode and
\* every N, 1 <= N < c, the same draws give under keep-high N and under
\* drop-low (c - N) the same finalResults values and the same total.
C14_KeepHighIsDropLowPlain ==
  \A j \in 1..Len(rolls) : \A n \in 1..RollTerm(j).count :
    (Paired(j, n) /\ ~RollTerm(j).explode) => KeepHighIsDropLow(j, n)

\* 2d3kh1 with the draws 1, 3 keeps the 3, as 2d3dl1 does
C14_Witness ==
  /\ pc = "done"
  /\ input = <<"2", "d", "3", "k", "h", "1">>
  /\ rolls[1].results = <<1, 3>>
  /\ rolls[1].finalResults = <<3>>
  /\ KeepHighIsDropLow(1, 1)

\* C15: in every Roll each result lies in 1..faces; when the term does not
\* explode there are exactly count results, replaced values not among
\* them, and the total lies between k and k * faces, k the length of
\* finalResults.  The results of a roll under way are within 1..faces too,
\* and no more than count when the term does not explode.
C15_ResultsInRange ==
  /\ \A j \in 1..Len(rolls) :
       LET r == rolls[j]
           term == RollTerm(j)
       IN  /\ r.faces = term.faces
           /\ \A i \in 1..Len(r.results) : r.results[i] \in 1..term.faces
           /\ ~term.explode =>
                /\ Len(r.results) = term.count
                /\ Len(r.finalResults) <= r.total
                /\ r.total <= Len(r.finalResults) * term.faces
  /\ pc = "rolling" =>
       /\ \A i \in 1..Len(cur.results) : cur.results[i] \in 1..cur.term.faces
       /\ ~cur.term.explode => Len(cur.results) <= cur.term.count

\* 2d3rr2 with the draws 2, 1, 3 for the first die and 3 for the second: four
\* draws, two results
C15_Witness ==
  /\ pc = "done"
  /\ input = <<"2", "d", "3", "r", "r", "2">>
  /\ draws = 4
  /\ rolls[1].results = <<3, 3>>
  /\ Len(rolls[1].rerollHistory) = 2

\* the position after the explosion extras that start at position q
RECURSIVE ExtrasEnd(_, _, _)
ExtrasEnd(raw, q, faces) ==
  IF q > Len(raw) THEN q
  ELSE IF raw[q] = faces THEN ExtrasEnd(raw, q + 1, faces)
  ELSE q + 1

\* the positions, from p on, of the dice's own values in the results of a
\* Roll of term: each is followed by its explosion extras, if it has any
RECURSIVE DicePositions(_, _, _)
DicePositions(raw, p, term) ==
  IF p > Len(raw) THEN {}
  ELSE {p} \cup DicePositions(raw,
                  IF term.explode /\ raw[p] = term.faces
                  THEN ExtrasEnd(raw, p + 1, term.faces) ELSE p + 1,
                  term)

\* the records of history for the die at index
RecordsAt(history, index) == {a \in 1..Len(history) : history[a].index = index}

\* C16: in every Roll of a reroll-once term, each die has at most one
\* RerollRecord, hence the Roll at most count; a die has a record exactly
\* when its first draw was within the threshold (the record holds that
\* draw; a die without a record shows its first draw, above the threshold);
\* and the record's replacement is the die's value in the results, whether
\* or not it is within the threshold itself.
C16_RerollOnce ==
  \A j \in 1..Len(rolls) :
    LET r == rolls[j]
        term == RollTerm(j)
        dice == DicePositions(r.results, 1, term)
    IN  term.reroll = "r" =>
          /\ Len(r.rerollHistory) <= term.count
          /\ \A a \in 1..Len(r.rerollHistory) :
               /\ RecordsAt(r.rerollHistory, r.rerollHistory[a].index) = {a}
               /\ r.rerollHistory[a].index + 1 \in dice
               /\ r.rerollHistory[a].originalValue <= term.rerollThreshold[1]
               /\ r.results[r.rerollHistory[a].index + 1]
                    = r.rerollHistory[a].rerolledValue
          /\ \A p \in dice :
               RecordsAt(r.rerollHistory, p - 1) = {}
                 => r.results[p] > term.rerollThreshold[1]

\* 2d3r2 with the draws 1, 2 for the first die and 3 for the second: the
\* replacement 2 stays although it is within the threshold
C16_Witness ==
  /\ pc = "done"
  /\ input = <<"2", "d", "3", "r", "2">>
  /\ rolls[1].results = <<2, 3>>
  /\ rolls[1].rerollHistory
       = <<[originalValue |-> 1, rerolledValue |-> 2, index |-> 0]>>

\* C17 as stated: in every Roll of a recursive-reroll term, whatever its
\* keep/drop and explode modifiers, no entry of finalResults is within the
\* threshold.
C17_NoFinalWithinThreshold ==
  \A j \in 1..Len(rolls) :
    RollTerm(j).reroll = "rr" =>
      \A i \in 1..Len(rolls[j].finalResults) :
        rolls[j].finalResults[i] > RollTerm(j).rerollThreshold[1]

\* C17 amended: in every Roll of a recursive-reroll term, whatever its
\* keep/drop modifier, every die's own value in the results is above the
\* threshold, and when the term does not explode no entry of finalResults
\* is within the threshold (an explosion extra is never rerolled and may
\* be).
C17_NoDieWithinThreshold ==
  \A j \in 1..Len(rolls) :
    LET r == rolls[j]
        term == RollTerm(j)
    IN  term.reroll = "rr" =>
          /\ \A p \in DicePositions(r.results, 1, term) :
               r.results[p] > term.rerollThreshold[1]
          /\ ~term.explode =>
               \A i \in 1..Len(r.finalResults) :
                 r.finalResults[i] > term.rerollThreshold[1]

\* 2d3kh1rr2 with the draws 1, 2, 3 for the first die and 3 for the second
C17_Witness ==
  /\ pc = "done"
  /\ input = <<"2", "d", "3", "k", "h", "1", "r", "r", "2">>
  /\ Len(rolls[1].rerollHistory) = 2
  /\ rolls[1].results = <<3, 3>>
  /\ rolls[1].finalResults = <<3>>

\* the rerollHistory of the roll under way or, roll having returned, of the
\* last Roll
HistoryNow ==
  IF cur.at # "idle" THEN cur.rerollHistory
  ELSE IF rolls # <<>> THEN rolls[Len(rolls)].rerollHistory
  ELSE <<>>

\* a draw in the recursive-reroll loop appends one RerollRecord, pairing
\* the value replaced with the draw, and the loop goes on exactly when the
\* draw is within the threshold
RecursiveRerollStep ==
  (cur.at = "rec" /\ draws' # draws) =>
    /\ Len(HistoryNow') = Len(cur.rerollHistory) + 1
    /\ HistoryNow'[Len(HistoryNow')].originalValue = cur.rollResult
    /\ HistoryNow'[Len(HistoryNow')].index = cur.index
    /\ (cur'.at = "rec" /\ cur'.i = cur.i)
         <=> HistoryNow'[Len(HistoryNow')].rerolledValue
               <= cur.term.rerollThreshold[1]

\* C18: under a fair random source the recursive-reroll loop of a die is
\* left; in it the threshold is below faces, each draw appends one
\* RerollRecord, and the loop is left at the first draw above the threshold.
C18_RecursiveRerollEnds ==
  /\ [](cur.at = "rec" => cur.term.rerollThreshold[1] < cur.term.faces)
  /\ [][RecursiveRerollStep]_vars
  /\ (cur.at = "rec") ~> (cur.at # "rec")

\* d3rr2 with the draws 1, 2, 3: two rounds of the loop
C18_Witness ==
  /\ pc = "done"
  /\ input = <<"d", "3", "r", "r", "2">>
  /\ rolls[1].results = <<3>>
  /\ rolls[1].rerollHistory
       = <<[originalValue |-> 1, rerolledValue |-> 2, index |-> 0],
           [originalValue |-> 2, rerolledValue |-> 3, index |-> 0]>>

\* C19: the evaluation of an accepted expression ends under a fair random
\* source; a source that draws every face time and again ends a reroll
\* chain or an explosion chain exactly when some face ends it, so: whenever
\* roll is in a reroll loop or an explosion loop, some face of the die
\* leaves the loop.
C19_EveryChainEnds ==
  (pc = "rolling" /\ cur.at \in {"rec", "explode"})
    => \E v \in 1..cur.term.faces : ~Continues(v)

\* C20: in every Roll the dice's own values, each followed by its explosion
\* extras, are count in number; a die's value equal to faces, drawn first
\* or as a replacement, is followed by extras up to the first one that is
\* not faces, and only such a value is; every RerollRecord is of a die's
\* own value, never of an extra, and the last record of a die holds the
\* value the results show for it.  While roll is in an explosion, the
\* value that set it off is already in the results.
C20_RerollBeforeExplosion ==
  /\ \A j \in 1..Len(rolls) :
       LET r == rolls[j]
           term == RollTerm(j)
           dice == DicePositions(r.results, 1, term)
       IN  /\ Cardinality(dice) = term.count
           /\ term.explode => r.results[Len(r.results)] # term.faces
           /\ ~term.explode => Len(r.results) = term.count
           /\ \A a \in 1..Len(r.rerollHistory) :
                /\ r.rerollHistory[a].index + 1 \in dice
                /\ r.rerollHistory[a].originalValue # term.faces
                /\ (\A b \in RecordsAt(r.rerollHistory, r.rerollHistory[a].index) :
                      b <= a)
                    => r.results[r.rerollHistory[a].index + 1]
                         = r.rerollHistory[a].rerolledValue
  /\ (pc = "rolling" /\ cur.at = "explode") =>
       /\ cur.term.explode
       /\ cur.results # <<>>
       /\ cur.results[Len(cur.results)] = cur.term.faces

\* d3!r2 with the draws 2, 3, 1: the 2 is replaced by 3, the 3 explodes, and
\* the extra 1, within the threshold, stays
C20_Witness ==
  /\ pc = "done"
  /\ input = <<"d", "3", "!", "r", "2">>
  /\ rolls[1].results = <<3, 1>>
  /\ rolls[1].rerollHistory
       = <<[originalValue |-> 2, rerolledValue |-> 3, index |-> 0]>>

\* C21 as stated: in every Roll of an exploding term the results are at
\* least count, and every entry at a position beyond count - 1 (counted
\* from 0) is a trigger, equal to faces, or the value that ends an
\* explosion chain, a value other than faces that follows a trigger.
C21_BeyondCountAreExtras ==
  \A j \in 1..Len(rolls) :
    LET raw == rolls[j].results
        term == RollTerm(j)
    IN  term.explode =>
          /\ Len(raw) >= term.count
          /\ \A p \in (term.count + 1)..Len(raw) :
               raw[p] = term.faces \/ raw[p - 1] = term.faces

\* C21 amended: in every Roll of an exploding term the results are at least
\* count: the count dice's own values, each followed at once by its extras,
\* so that the extras lie among the dice's values and not all beyond
\* position count - 1; and every entry that is not a die's own value is a
\* trigger, equal to faces, or the one value that ends its chain: it
\* follows a trigger, and a die's own value or the end follows it.
C21_ExtrasFollowTheirDie ==
  \A j \in 1..Len(rolls) :
    LET raw == rolls[j].results
        term == RollTerm(j)
        dice == DicePositions(raw, 1, term)
    IN  term.explode =>
          /\ Len(raw) >= term.count
          /\ Cardinality(dice) = term.count
          /\ 1 \in dice
          /\ \A p \in (1..Len(raw)) \ dice :
               /\ raw[p - 1] = term.faces
               /\ raw[p] # term.faces => (p = Len(raw) \/ p + 1 \in dice)

\* 2d3! with the draws 3, 1, 2: the extra 1 stands before the second die's 2
C21_Witness ==
  /\ pc = "done"
  /\ input = <<"2", "d", "3", "!">>
  /\ rolls[1].results = <<3, 1, 2>>

\* ----------------------------------------------------- claims about detail
\* the pieces of a text, put together
RECURSIVE Flat(_)
Flat(pieces) ==
  IF pieces = <<>> THEN "" ELSE Flat(SubSeq(pieces, 1, Len(pieces) - 1)) \o pieces[Len(pieces)]

\* the values of s in decimal, with commas between them
RECURSIVE Commas(_)
Commas(s) ==
  IF s = <<>> THEN ""
  ELSE IF Len(s) = 1 THEN ToString(s[1])
  ELSE Commas(SubSeq(s, 1, Len(s) - 1)) \o "," \o ToString(s[Len(s)])

Shown(s) == "[" \o Commas(s) \o "]"

\* finalResults are shown: when they differ from the results, or when they
\* are fewer
Follows(roll, when) ==
  IF when = "differ" THEN roll.finalResults # roll.results
  ELSE Len(roll.finalResults) # Len(roll.results)

\* what detail shows for term j
TermText(j, when) ==
  IF TermOf(j).kind = "dice"
  THEN Shown(rolls[DiceAmong(j)].results)
         \o (IF Follows(rolls[DiceAmong(j)], when)
             THEN "→" \o Shown(rolls[DiceAmong(j)].finalResults) ELSE "")
  ELSE IF TermOf(j).value.k = "int" THEN ToString(TermOf(j).value.v)
  ELSE "NaN"

\* the detail of the first j terms
RECURSIVE DetailOf(_, _)
DetailOf(j, when) ==
  IF j = 1 THEN TermText(1, when)
  ELSE DetailOf(j - 1, when) \o " " \o parsed.arithmetic[j - 1].operator
         \o " " \o TermText(j, when)

\* C22 as stated: the detail of a finished evaluation is the first term's
\* text, a literal or the bracketed results, then  " op text"  for each
\* further term, finalResults following a Roll's results after an arrow
\* exactly when they differ from the results.
C22_DetailShowsDiffering ==
  pc = "done" => Flat(detail) = DetailOf(Terms, "differ")

\* C22 amended: the detail of a finished evaluation is the first term's
\* text, a literal's value in decimal (NaN for an operand read as NaN) or
\* the bracketed results, then  " op text"  for each further term,
\* finalResults following a Roll's results after an arrow exactly when they
\* are fewer than the results; finalResults that are the results in another
\* order are not shown.  3d6+2 with the draws 4, 5, 3 gives [4,5,3] + 2 and
\* the total 14, 4d6kh1 with the draws 4, 5, 3, 2 gives [4,5,3,2]→[5].
C22_DetailShowsFewer ==
  pc = "done" =>
    /\ Flat(detail) = DetailOf(Terms, "fewer")
    /\ (input = <<"3", "d", "6", "+", "2">> /\ rolls[1].results = <<4, 5, 3>>)
         => (Flat(detail) = "[4,5,3] + 2" /\ total = Num(14))
    /\ (input = <<"4", "d", "6", "k", "h", "1">>
          /\ rolls[1].results = <<4, 5, 3, 2>>)
         => Flat(detail) = "[4,5,3,2]→[5]"

\* 2d3kh2+1 with the draws 1, 3: finalResults 3, 1 are not shown
C22_Witness ==
  /\ pc = "done"
  /\ input = <<"2", "d", "3", "k", "h", "2", "+", "1">>
  /\ rolls[1].results = <<1, 3>>
  /\ rolls[1].finalResults = <<3, 1>>
  /\ Flat(detail) = "[1,3] + 1"

\* ------------------------------------------- claims about the draws' order
\* the values that the records of history replaced at index, in their order
RECURSIVE Originals(_, _)
Originals(history, index) ==
  IF history = <<>> THEN <<>>
  ELSE (IF Head(history).index = index THEN <<Head(history).originalValue>>
        ELSE <<>>) \o Originals(Tail(history), index)

\* the draws that results and history tell of, from position p on: for each
\* position the values replaced there and then the value it shows
RECURSIVE RollLog(_, _, _)
RollLog(results, history, p) ==
  IF p > Len(results) THEN <<>>
  ELSE Originals(history, p - 1) \o <<results[p]>>
         \o RollLog(results, history, p + 1)

\* the draws of the die being rerolled, its value not yet pushed
Pending ==
  IF pc = "rolling" /\ cur.at \in {"once", "rec"}
  THEN Originals(cur.rerollHistory, Len(cur.results)) \o <<cur.rollResult>>
  ELSE <<>>

RECURSIVE RollsLog(_)
RollsLog(j) ==
  IF j = 0 THEN <<>>
  ELSE RollsLog(j - 1) \o RollLog(rolls[j].results, rolls[j].rerollHistory, 1)

\* the draws so far in the order that rolls and the roll under way tell of:
\* Roll by Roll and, within one, die by die, a die's first draw, then its
\* replacements, then its explosion extras
DrawLog ==
  RollsLog(Len(rolls))
    \o (IF pc = "rolling" THEN RollLog(cur.results, cur.rerollHistory, 1) ELSE <<>>)
    \o Pending

\* rolls holds one Roll for each dice term evaluated so far and none for a
\* literal, in the terms' order; the roll under way is of the next dice term
OneRollPerDiceTerm ==
  /\ pc = "done" => Len(rolls) = DiceAmong(Terms)
  /\ pc = "rolling" =>
       /\ cur.term = TermOf(k + 1)
       /\ Len(rolls) = DiceAmong(k + 1) - 1
  /\ pc \in {"rolling", "done"} =>
       \A j \in 1..Len(rolls) :
         /\ rolls[j].faces = RollTerm(j).faces
         /\ Cardinality(DicePositions(rolls[j].results, 1, RollTerm(j)))
              = RollTerm(j).count
  /\ pc \in {"input", "failed"} => rolls = <<>>

\* a rollSingle call adds its value at the end of DrawLog
DrawnLast ==
  draws' # draws =>
    /\ draws' = draws + 1
    /\ Len(DrawLog') = draws'
    /\ DrawLog' = drawn'
    /\ SubSeq(DrawLog', 1, draws) = DrawLog
    /\ pc = "rolling" /\ DrawLog'[draws'] \in 1..cur.term.faces
    /\ SubSeq(rolls', 1, Len(rolls)) = rolls

\* 2d6r2+5 with the draws 1, x, 5: the first die is rerolled once, and the
\* total is x + 5 + 5
RerollExample ==
  (pc = "done" /\ input = <<"2", "d", "6", "r", "2", "+", "5">>
     /\ DrawLog[1] = 1 /\ DrawLog[3] = 5)
    => /\ draws = 3
       /\ rolls[1].rerollHistory
            = <<[originalValue |-> 1, rerolledValue |-> DrawLog[2], index |-> 0]>>
       /\ rolls[1].results = <<DrawLog[2], 5>>
       /\ total = Num(DrawLog[2] + 5 + 5)

\* C23: rolls holds exactly one Roll per dice term of the Expression, none
\* for a literal, in the terms' order, and the draws are made in that
\* order: every draw is the next value of the term under way, after all
\* draws of the terms before it and, within the term, after the draws of
\* the dice before it, a die's first draw before its replacements and those
\* before its extras.
C23_DrawsInOrder == [][DrawnLast /\ OneRollPerDiceTerm' /\ RerollExample']_vars

\* 1d2+2+1d3 with the draws 2, 3: a Roll of 1d2, then one of 1d3
C23_Witness ==
  /\ pc = "done"
  /\ input = <<"1", "d", "2", "+", "2", "+", "1", "d", "3">>
  /\ Len(rolls) = 2
  /\ rolls[1].results = <<2>>
  /\ rolls[2].results = <<3>>
  /\ DrawLog = <<2, 3>>
  /\ total = Num(7)

\* ------------------------------------------------ claims about determinism
\* C24: an evaluation that follows another of the same input ends as that
\* one did, with the same Expression or the same error from parse, and if
\* it made the same draws it returns the same Result: the same rolls, with
\* their reroll histories, the same total and the same detail.
C24_SameInputSameDraws ==
  (before # NoOutcome /\ pc \in {"done", "failed"}) =>
    /\ parsed = before.parsed
    /\ (pc = "failed") <=> (before.pc = "failed")
    /\ (pc = "done" /\ drawn = before.drawn) =>
         /\ rolls = before.rolls
         /\ total = before.total
         /\ detail = before.detail

\* 2d3kh1! evaluated twice with the draws 3, 1, 2
C24_Witness ==
  /\ pc = "done"
  /\ input = <<"2", "d", "3", "k", "h", "1", "!">>
  /\ before.pc = "done"
  /\ before.drawn = <<3, 1, 2>>
  /\ drawn = <<3, 1, 2>>
  /\ rolls = before.rolls
  /\ rolls[1].finalResults = <<3>>

\* ----------------------------------------------------- claims about format
\* the total as JavaScript prints it
TotalShown ==
  IF total.k = "int" THEN ToString(total.v)
  ELSE IF total.k = "nan" THEN "NaN"
  ELSE IF total.v > 0 THEN "Infinity" ELSE "-Infinity"

\* the description's line, for a description that is given and not blank
DescriptionShown ==
  IF options.description.k = "string" /\ ~Blank(options.description.s)
  THEN Flat(options.description.s) \o "\n" ELSE ""

\* the glyph and a space, unless showEmoji is false
EmojiShown == IF options.showEmoji = Bool(FALSE) THEN "" ELSE "(die) "

NoRerollHistory == \A j \in 1..Len(rolls) : rolls[j].rerollHistory = <<>>

\* C25: when no Roll of the Result has a reroll history, format returns the
\* description and a newline, only for a description that is given and not
\* blank, and then  <emoji>expression = detail = total,  the emoji being
\* the die glyph and a space unless showEmoji is false; 3d6+2 with the
\* draws 4, 5, 3 and no options gives  (die) 3d6+2 = [4,5,3] + 2 = 14.
C25_SingleLineForm ==
  (pc = "shown" /\ NoRerollHistory) =>
    /\ output = DescriptionShown \o EmojiShown \o Flat(input) \o " = "
                  \o Flat(detail) \o " = " \o TotalShown
    /\ (input = <<"3", "d", "6", "+", "2">> /\ rolls[1].results = <<4, 5, 3>>
          /\ options = NoOptions)
         => output = "(die) 3d6+2 = [4,5,3] + 2 = 14"

\* 3d6+2 with the draws 4, 5, 3, the description hit and no emoji
C25_Witness ==
  /\ pc = "shown"
  /\ input = <<"3", "d", "6", "+", "2">>
  /\ rolls[1].results = <<4, 5, 3>>
  /\ options = Options(Str(<<"h", "i", "t">>), Bool(FALSE))
  /\ output = "hit\n3d6+2 = [4,5,3] + 2 = 14"

\* C26: when a Roll of the Result has a reroll history, the string that
\* format returns shows each Roll's results with every rerolled position
\* as a chain from the first original value through every replacement to
\* the final value, one link for each RerollRecord of that position in
\* the order of the draws: the values shown for a position are the values
\* its records replaced and then the result.
C26_RerollChainsShown ==
  (pc = "shown" /\ ~NoRerollHistory) =>
    \A j \in 1..Len(rolls) : \A p \in 1..Len(rolls[j].results) :
      markRerolledValues(rolls[j].results, rolls[j].rerollHistory)[p]
        = Originals(rolls[j].rerollHistory, p - 1) \o <<rolls[j].results[p]>>

\* -------------------------------------------- claims about rerollHistory
\* the first draw of the die whose value stands at position p
BaseDraw(roll, p) ==
  Head(Originals(roll.rerollHistory, p - 1) \o <<roll.results[p]>>)

\* C27: a Roll has no rerollHistory exactly when no die of its term set off
\* a reroll: none for a term without a reroll modifier, none when every
\* die's first draw was above the threshold (an explosion extra within the
\* threshold sets off nothing), and some whenever the first draw of a die
\* of a term with a reroll modifier was within the threshold.
C27_HistoryIffTriggered ==
  \A j \in 1..Len(rolls) :
    LET r == rolls[j]
        term == RollTerm(j)
        dice == DicePositions(r.results, 1, term)
    IN  /\ term.reroll = "none" => r.rerollHistory = <<>>
        /\ term.reroll # "none" =>
             ((r.rerollHistory = <<>>)
                <=> \A p \in dice : BaseDraw(r, p) > term.rerollThreshold[1])

\* d3!r with the draws 3, 1: the extra 1 is within the threshold 1, and no
\* reroll is recorded
C27_Witness ==
  /\ pc = "done"
  /\ input = <<"d", "3", "!", "r">>
  /\ rolls[1].results = <<3, 1>>
  /\ rolls[1].rerollHistory = <<>>

\* ------------------------------------------------ claims about explosion
\* the results after a step of roll: of the Roll, if roll has returned
ResultsAfter ==
  IF Len(rolls') > Len(rolls) THEN rolls'[Len(rolls')].results ELSE cur'.results

\* roll stays in the explosion of the die it is at
ExplosionOn ==
  pc' = "rolling" /\ Len(rolls') = Len(rolls) /\ cur'.at = "explode"

\* a draw of an exploding term: an extra is drawn only after an entry equal
\* to faces and is pushed; an entry pushed is followed by an extra draw
\* exactly when it equals faces; a draw that is replaced pushes nothing and
\* sets off no explosion
ExplosionStep ==
  (pc = "rolling" /\ cur.term.explode /\ draws' # draws) =>
    /\ cur.at = "explode" =>
         /\ Len(ResultsAfter) = Len(cur.results) + 1
         /\ cur.results[Len(cur.results)] = cur.term.faces
    /\ Len(ResultsAfter) = Len(cur.results) + 1 =>
         /\ SubSeq(ResultsAfter, 1, Len(cur.results)) = cur.results
         /\ ExplosionOn <=> ResultsAfter[Len(ResultsAfter)] = cur.term.faces
    /\ Len(ResultsAfter) # Len(cur.results) + 1 =>
         /\ ResultsAfter = cur.results
         /\ ~ExplosionOn

\* in a Roll of an exploding term the results are count and one more for
\* every entry equal to faces, and the last entry is not faces
ExtrasCounted ==
  \A j \in 1..Len(rolls) :
    RollTerm(j).explode =>
      /\ Len(rolls[j].results)
           = RollTerm(j).count + Occurs(rolls[j].results, RollTerm(j).faces)
      /\ rolls[j].results[Len(rolls[j].results)] # RollTerm(j).faces

\* C28: when the roll of an exploding term has returned, the length of the
\* results is count plus the number of entries equal to faces: every entry
\* equal to faces, a die's value after rerolling or an extra, is followed
\* at once by exactly one extra draw, and no extra follows an entry other
\* than faces.
C28_OneExtraPerTopFace == [][ExplosionStep /\ ExtrasCounted']_vars

\* 2d2! with the draws 2, 2, 1, 1: two entries equal to faces, four results
C28_Witness ==
  /\ pc = "done"
  /\ input = <<"2", "d", "2", "!">>
  /\ rolls[1].results = <<2, 2, 1, 1>>

\* the draws that the first j Rolls tell of: a result or a replaced value each
RECURSIVE DrawsOf(_)
DrawsOf(j) ==
  IF j = 0 THEN 0
  ELSE DrawsOf(j - 1) + Len(rolls[j].results) + Len(rolls[j].rerollHistory)

\* C29: every RerollRecord of a Roll fits the results: its index is a
\* position of the results, also after explosions of earlier dice; its
\* originalValue is within the threshold; the records of one index stand
\* together, each replacing what the one before it drew; the result at the
\* index is the rerolledValue of the last record of that index; and the
\* draws made are as many as the results and the records together.
C29_RecordsFitResults ==
  /\ \A j \in 1..Len(rolls) :
       LET r == rolls[j]
           h == rolls[j].rerollHistory
           term == RollTerm(j)
       IN  \A a \in 1..Len(h) :
             /\ h[a].index \in 0..(Len(r.results) - 1)
             /\ h[a].originalValue <= term.rerollThreshold[1]
             /\ \A b \in 1..(a - 1) :
                  h[b].index = h[a].index =>
                    /\ h[a - 1].index = h[a].index
                    /\ h[a].originalValue = h[a - 1].rerolledValue
             /\ (a = Len(h) \/ h[a + 1].index # h[a].index) =>
                  r.results[h[a].index + 1] = h[a].rerolledValue
  /\ pc = "done" => draws = DrawsOf(Len(rolls))

\* 2d3!rr2 with the draws 3, 1 for the first die and 1, 2, 3, 2 for the
\* second: the second die's records have index 2
C29_Witness ==
  /\ pc = "done"
  /\ input = <<"2", "d", "3", "!", "r", "r", "2">>
  /\ rolls[1].results = <<3, 1, 3, 2>>
  /\ rolls[1].rerollHistory
       = <<[originalValue |-> 1, rerolledValue |-> 2, index |-> 2],
           [originalValue |-> 2, rerolledValue |-> 3, index |-> 2]>>
  /\ draws = 6

\* ------------------------------------------------------------ claim C30
\* text without any of its white space
NoSpace(t) == SelectSeq(t, LAMBDA c : c \notin WhiteSpace)

\* the positions of t holding white space that is followed, after the white
\* space next to it, by something other than an operator
Misplaced(t) ==
  {i \in 1..Len(t) :
     /\ t[i] \in WhiteSpace
     /\ CharAt(trimStart(SubSeq(t, i, Len(t))), 1) \notin Operators}

\* the text of t before its first misplaced white space
BeforeMisplaced(t) ==
  SubSeq(t, 1, (CHOOSE i \in Misplaced(t) : \A j \in Misplaced(t) : i <= j) - 1)

NothingRolled == pc = "failed" /\ rolls = <<>> /\ draws = 0

SpacedRight == <<"3", "d", "6", " ", "+", "2">>

SpacedWrong ==
  {<<"3", "d", "6", "+", " ", "2">>, <<"3", "d", "6", " ", "+", " ", "2">>,
   <<"3", " ", "d", "6">>, <<"3", "d", "6", " ", "k", "h", "1">>}

\* the examples of the claim
SpacedExamples ==
  /\ input = SpacedRight
       => parsed = parse(<<"3", "d", "6", "+", "2">>) /\ parsed.err = NoError
  /\ input \in SpacedWrong
       => parsed.err = InvalidExpression /\ NothingRolled

\* C30 as stated: white space inside the text is accepted only right before
\* an operator, where it changes nothing; white space anywhere else in a text
\* that is an Expression without it makes parse fail with InvalidExpression,
\* before any die is rolled.
C30_MisplacedIsInvalidExpression ==
  (Parsed /\ parse(NoSpace(Normal(input))).err = NoError)
    => /\ SpacedExamples
       /\ Misplaced(Normal(input)) = {}
            => parsed = parse(NoSpace(Normal(input)))
       /\ Misplaced(Normal(input)) # {}
            => parsed.err = InvalidExpression /\ NothingRolled

\* C30, amended: white space right before an operator changes nothing of
\* what parse returns; white space anywhere else inside the text makes parse
\* fail before any die is rolled, with the error of the text before that
\* white space when that text fails by itself and with InvalidExpression
\* otherwise.
C30_MisplacedFails ==
  Parsed
    => /\ SpacedExamples
       /\ Misplaced(Normal(input)) = {}
            => parsed = parse(NoSpace(Normal(input)))
       /\ Misplaced(Normal(input)) # {}
            => /\ NothingRolled
               /\ parsed.err =
                    (IF parse(BeforeMisplaced(Normal(input))).err # NoError
                     THEN parse(BeforeMisplaced(Normal(input))).err
                     ELSE InvalidExpression)

C30_Witness ==
  /\ input = SpacedRight
  /\ pc = "done"
  /\ parsed = parse(<<"3", "d", "6", "+", "2">>)
  /\ Len(rolls) = 1
  /\ rolls[1].results = <<4, 5, 3>>
  /\ total = Num(14)

====
